---- MODULE Spec2Model ----
(***************************************************************************)
(* Model of the YTM-Lyrics-UI background service worker (background.js):   *)
(* the Player State Store kept in chrome.storage.session, the Source       *)
(* Orchestrator (fetchLyricsHandler) and the Lyrics Cache kept in          *)
(* chrome.storage.local; and of its content script (content.js): the song  *)
(* changes, their lyrics requests and artwork lookups, the broadcasts and  *)
(* the custom layout.                                                      *)
(*                                                                         *)
(* Every `await` of the code is a suspension point.  A chrome.storage call *)
(* is a request put in a FIFO queue; the storage backend serves the head   *)
(* of the queue (the read or the write takes effect there), and the        *)
(* caller's continuation runs in a later step of the event loop.           *)
(***************************************************************************)
EXTENDS Integers, Sequences, FiniteSets, TLC

(***************************************************************************)
(* Bounds of the model.                                                    *)
(***************************************************************************)
MaxTabs == 2
MaxProcs == 2
MaxNow == 1
MaxReqs == 2
MaxLate == 1
MaxChanges == 3

Tabs == 1..MaxTabs
Procs == 1..MaxProcs
Reqs == 1..MaxReqs
Calls == 1..MaxChanges

VARIABLES
    session,    \* chrome.storage.session[CONFIG.STORE_KEY]: tabId -> PlayerState
    sessQ,      \* storage.session requests issued and not yet served (FIFO)
    procs,      \* the handler invocations of the service worker, in start order
    tabUrl,     \* what each browser tab shows
    now,        \* Date.now()
    orch,       \* one call of fetchLyricsHandler: its tasks and their promises
    cache,      \* chrome.storage.local: cache key -> cache entry
    localQ,     \* storage.local requests issued and not yet served (FIFO)
    reqs,       \* the fetchLyrics requests being handled, in start order
    page,       \* one content script: its `state`, its DOM and its async calls
    match,      \* one call of calculateScore: its arguments and its result
    gc,         \* one call of garbageCollectCache: its position and its locals
    popup,      \* the popup page: whether it is open, and its `state`
    textCall    \* one call of a text function: its argument and its result

storeVars == <<session, sessQ, procs, tabUrl>>
cacheVars == <<cache, localQ, reqs>>
lyricVars == <<orch, cache, localQ, reqs>>
vars == <<session, sessQ, procs, tabUrl, now, orch, cache, localQ, reqs, page,
          match, gc, popup, textCall>>

(***************************************************************************)
(* Player State Store: values.                                             *)
(***************************************************************************)
\* request.data of an updateState message: the object capturePlayerState
\* returns, which carries every field each time (artwork may be null)
PlayerData ==
    { [title |-> "s1", status |-> "playing", artwork |-> "null"] }

\* `result[CONFIG.STORE_KEY] || {}`
EmptyStore == [t \in {} |-> 0]

\* { ...playerData, lastUpdated: Date.now(), tabId: tabId }
MakeEntry(playerData, tabId, t) ==
    [f \in DOMAIN playerData \cup {"lastUpdated", "tabId"} |->
        IF f = "tabId" THEN tabId
        ELSE IF f = "lastUpdated" THEN t
        ELSE playerData[f]]

\* store[tabId] = entry
StorePut(store, tabId, entry) ==
    [t \in DOMAIN store \cup {tabId} |-> IF t = tabId THEN entry ELSE store[t]]

\* delete store[tabId]
StoreDel(store, tabId) ==
    [t \in DOMAIN store \ {tabId} |-> store[t]]

\* the loop of cleanUpZombies: delete every stored id that is not an actual tab
ZombiesRemoved(store, actualTabIds) ==
    [t \in DOMAIN store \cap actualTabIds |-> store[t]]

\* `changed` of cleanUpZombies
ZombiesChanged(store, actualTabIds) ==
    \E id \in DOMAIN store : id \notin actualTabIds

(***************************************************************************)
(* Lyrics: text helpers.  A string is a sequence of characters.            *)
(***************************************************************************)
\* \s of the regular expressions, and the ideographic space, as far as the
\* model's strings have them
IsSpace(c) == c = " "

\* the class [\(\[-\{\<] of cleanText: '(' , '<' and the range '[' .. '{',
\* which holds the lower-case letters
IsOpenClass(c) == c \in {"(", "<", "[", "]", "{", "o", "m", "v", "s"}

\* the class [\)\]-\}\>] of cleanText: ')' , '>' and the range ']' .. '}',
\* which holds the lower-case letters
IsCloseClass(c) == c \in {")", ">", "]", "{", "}", "o", "m", "v", "s"}

RECURSIVE TrimLeft(_)
TrimLeft(s) ==
    IF s # << >> /\ IsSpace(Head(s)) THEN TrimLeft(Tail(s)) ELSE s

RECURSIVE TrimRight(_)
TrimRight(s) ==
    IF s # << >> /\ IsSpace(s[Len(s)])
    THEN TrimRight(SubSeq(s, 1, Len(s) - 1))
    ELSE s

\* String.prototype.trim
Trim(s) == TrimRight(TrimLeft(s))

\* replace(/[\s　]+/g, ' ')
RECURSIVE CollapseSpaces(_)
CollapseSpaces(s) ==
    IF s = << >> THEN << >>
    ELSE IF IsSpace(Head(s))
         THEN <<" ">> \o CollapseSpaces(TrimLeft(s))
         ELSE <<Head(s)>> \o CollapseSpaces(Tail(s))

\* sanitize(text)
sanitize(text) ==
    IF text = << >> THEN << >> ELSE Trim(CollapseSpaces(text))

\* first replace of cleanText, /\s*[open].*?[close].*/ -> "": the leftmost
\* match starts at the first position from which, after white space only, a
\* character of the opening class comes that has a character of the closing
\* class somewhere behind it; the match runs to the end of the string
MatchesBracket(s, i) ==
    \E j \in i..Len(s) :
        /\ \A k \in i..(j - 1) : IsSpace(s[k])
        /\ IsOpenClass(s[j])
        /\ \E k \in (j + 1)..Len(s) : IsCloseClass(s[k])

StripBracketed(s) ==
    IF \E i \in 1..Len(s) : MatchesBracket(s, i)
    THEN LET i == CHOOSE i \in 1..Len(s) :
                    /\ MatchesBracket(s, i)
                    /\ \A h \in 1..(i - 1) : ~MatchesBracket(s, h)
         IN SubSeq(s, 1, i - 1)
    ELSE s

\* second replace of cleanText, /official\s+video|...|hq|mv|pv/gi -> "": of
\* its alternatives the model's alphabet can spell "mv" (in either case)
IsPromoAt(s) ==
    /\ Len(s) >= 2
    /\ s[1] \in {"m", "M"}
    /\ s[2] \in {"v", "V"}

RECURSIVE StripPromo(_)
StripPromo(s) ==
    IF s = << >> THEN << >>
    ELSE IF IsPromoAt(s) THEN StripPromo(SubSeq(s, 3, Len(s)))
    ELSE <<Head(s)>> \o StripPromo(Tail(s))

\* cleanText(text)
cleanText(text) ==
    IF text = << >> THEN << >> ELSE Trim(StripPromo(StripBracketed(text)))

(***************************************************************************)
(* Lyrics: values.  A JavaScript value that is null or a list of lines.    *)
(***************************************************************************)
Null == [isNull |-> TRUE, lines |-> << >>]
List(ls) == [isNull |-> FALSE, lines |-> ls]

\* `if (value)`: an array, also an empty one, is truthy
Truthy(v) == ~v.isNull

\* [{ time: 0, text: "Lyrics not found" }]
Sentinel == List(<<[time |-> 0, text |-> "Lyrics not found"]>>)

\* A line of an LRC document after the match of timeRegex: whether it has a
\* [MM:SS.ff] stamp, the time the stamp gives, and the rest of the line,
\* trimmed ("" when nothing is left).  An absent, null or empty
\* syncedLyrics is the empty document.
DocLine(stamp, time, text) == [stamp |-> stamp, time |-> time, text |-> text]

RECURSIVE ParsedLines(_)
ParsedLines(doc) ==
    IF doc = << >> THEN << >>
    ELSE LET line == Head(doc) IN
         IF line.stamp /\ line.text # ""
         THEN <<[time |-> line.time, text |-> line.text]>> \o ParsedLines(Tail(doc))
         ELSE ParsedLines(Tail(doc))

\* parseLRC(lrcString)
parseLRC(lrcString) ==
    IF lrcString = << >> THEN Null ELSE List(ParsedLines(lrcString))

(***************************************************************************)
(* Lyrics: the catalog's answers and the lookup strategies.                *)
(***************************************************************************)
\* documents the catalog may hold
DocEmpty == << >>
DocJunk == <<DocLine(FALSE, 0, "intro"), DocLine(TRUE, 5, "")>>
DocOne == <<DocLine(TRUE, 1, "la")>>
DocA == <<DocLine(TRUE, 1, "la"), DocLine(TRUE, 2, "la la")>>
DocB == <<DocLine(TRUE, 3, "na"), DocLine(FALSE, 0, "x"), DocLine(TRUE, 4, "na na")>>

\* a catalog record with the score calculateScore gives it for the query
Item(doc, score) == [syncedLyrics |-> doc, score |-> score]

\* The outcome of one fetch: the request throws ("throw"), or a response
\* arrives with a status, a body that parses as JSON or not, and the parsed
\* data (one record for /api/get, an array for /api/search).
Response(net, status, json, data) ==
    [net |-> net, status |-> status, json |-> json, data |-> data]

GetResponses ==
    { Response("throw", 0, FALSE, << >>),
      Response("ok", 404, TRUE, << >>),
      Response("ok", 200, FALSE, << >>),
      Response("ok", 200, TRUE, <<Item(DocEmpty, 0)>>),
      Response("ok", 200, TRUE, <<Item(DocJunk, 0)>>),
      Response("ok", 200, TRUE, <<Item(DocOne, 0)>>),
      Response("ok", 200, TRUE, <<Item(DocA, 0)>>) }

SearchResponses ==
    { Response("throw", 0, FALSE, << >>),
      Response("ok", 500, TRUE, <<Item(DocB, 190)>>),
      Response("ok", 200, FALSE, << >>),
      Response("ok", 200, TRUE, << >>),
      Response("ok", 200, TRUE, <<Item(DocEmpty, 190), Item(DocA, 70)>>),
      Response("ok", 200, TRUE, <<Item(DocA, 71), Item(DocB, 190)>>),
      Response("ok", 200, TRUE, <<Item(DocB, 140), Item(DocA, 140)>>) }

\* bestMatch.score > 70
ScoreThreshold == 70

\* tryApiGet(track_name, artist_name, album_name, duration, includeAlbum),
\* its fetch ending as `res`
tryApiGet(track_name, artist_name, album_name, duration, includeAlbum, res) ==
    IF track_name = << >> \/ artist_name = << >> \/ duration = 0 THEN Null
    ELSE IF res.net = "throw" THEN Null
    ELSE IF res.status = 200
         THEN IF res.json /\ res.data # << >>
              THEN parseLRC(res.data[1].syncedLyrics)
              ELSE Null
         ELSE Null

\* data.filter(item => item.syncedLyrics)
RECURSIVE WithSyncedLyrics(_)
WithSyncedLyrics(data) ==
    IF data = << >> THEN << >>
    ELSE IF Head(data).syncedLyrics # << >>
         THEN <<Head(data)>> \o WithSyncedLyrics(Tail(data))
         ELSE WithSyncedLyrics(Tail(data))

\* a search that takes the first candidate without ranking them; the code
\* does not behave like this
FirstCandidate(candidates) == candidates[1]

\* scoredCandidates.sort((a, b) => b.score - a.score)[0]: the sort is
\* stable, so the first is the earliest candidate of the highest score
BestMatch(candidates) ==
    LET i == CHOOSE i \in 1..Len(candidates) :
                /\ \A j \in 1..Len(candidates) :
                        candidates[j].score <= candidates[i].score
                /\ \A j \in 1..(i - 1) :
                        candidates[j].score < candidates[i].score
    IN candidates[i]

\* tryApiSearch without the `if (!res.ok) throw`
tryApiSearchAnyStatus(title, artist, album, lang, duration, res) ==
    IF res.net = "throw" THEN Null
    ELSE IF ~res.json THEN Null
    ELSE LET candidates == WithSyncedLyrics(res.data) IN
         IF candidates = << >> THEN Null
         ELSE IF BestMatch(candidates).score > 70
              THEN parseLRC(BestMatch(candidates).syncedLyrics)
              ELSE Null

\* tryApiSearch(title, artist, album, lang, duration), its fetch ending as `res`
tryApiSearch(title, artist, album, lang, duration, res) ==
    IF res.net = "throw" THEN Null
    ELSE IF ~(res.status >= 200 /\ res.status <= 299) THEN Null
    ELSE IF ~res.json THEN Null
    ELSE LET candidates == WithSyncedLyrics(res.data) IN
         IF candidates = << >> THEN Null
         ELSE IF BestMatch(candidates).score > ScoreThreshold
              THEN parseLRC(BestMatch(candidates).syncedLyrics)
              ELSE Null

\* a request of fetchLyricsHandler
Query(title, artist, album, lang, duration) ==
    [title |-> title, artist |-> artist, album |-> album, lang |-> lang,
     duration |-> duration]

\* a task list with the search on cleaned text whatever the cleanup does;
\* the code does not behave like this
TasksAlwaysClean(q) ==
    <<"GET_WITH_ALBUM", "GET_NO_ALBUM", "SEARCH_RAW", "SEARCH_CLEAN">>

\* the names of `tasks`, in the order of the array
Tasks(q) ==
    <<"GET_WITH_ALBUM", "GET_NO_ALBUM", "SEARCH_RAW">>
    \o (IF cleanText(q.title) # q.title \/ cleanText(q.artist) # q.artist
        THEN <<"SEARCH_CLEAN">> ELSE << >>)

\* no fetch was made
NoResponse == Response("none", 0, FALSE, << >>)

\* whether the task calls fetch: tryApiGet returns before it when the
\* track name, the artist name or the duration is missing
Fetches(task, q) ==
    task \in {"GET_WITH_ALBUM", "GET_NO_ALBUM"} =>
        ~(sanitize(q.title) = << >> \/ sanitize(q.artist) = << >> \/ q.duration = 0)

\* the ways a task's fetch may end
ResponsesOf(task, q) ==
    IF ~Fetches(task, q) THEN {NoResponse}
    ELSE IF task \in {"GET_WITH_ALBUM", "GET_NO_ALBUM"} THEN GetResponses
    ELSE SearchResponses

\* NetworkFailure: the request throws, the status is not a success, or the
\* body does not parse
IsFailure(res) ==
    res.net = "throw" \/ ~(res.status >= 200 /\ res.status <= 299) \/ ~res.json

\* t.fn(): the value the task's promise is fulfilled with
TaskValue(task, q, res) ==
    CASE task = "GET_WITH_ALBUM" ->
            tryApiGet(sanitize(q.title), sanitize(q.artist), sanitize(q.album),
                      q.duration, TRUE, res)
      [] task = "GET_NO_ALBUM" ->
            tryApiGet(sanitize(q.title), sanitize(q.artist), sanitize(q.album),
                      q.duration, FALSE, res)
      [] task = "SEARCH_RAW" ->
            tryApiSearch(sanitize(q.title), sanitize(q.artist), sanitize(q.album),
                         q.lang, q.duration, res)
      [] task = "SEARCH_CLEAN" ->
            tryApiSearch(cleanText(q.title), cleanText(q.artist), sanitize(q.album),
                         q.lang, q.duration, res)

\* an entry of the array Promise.allSettled resolves to
Settled(value) == [status |-> "fulfilled", value |-> value]

\* PickResult taking the first task that settled with a value
PickFirstSettled(results) ==
    IF \E k \in 1..Len(orch.order) : Truthy(results[orch.order[k]].value)
    THEN LET k == CHOOSE k \in 1..Len(orch.order) :
                    /\ Truthy(results[orch.order[k]].value)
                    /\ \A h \in 1..(k - 1) : ~Truthy(results[orch.order[h]].value)
         IN results[orch.order[k]].value
    ELSE Sentinel

\* PickResult without the fallback line
PickWithoutFallback(results) ==
    IF \E i \in 1..Len(results) : Truthy(results[i].value)
    THEN LET i == CHOOSE i \in 1..Len(results) :
                    /\ Truthy(results[i].value)
                    /\ \A j \in 1..(i - 1) : ~Truthy(results[j].value)
         IN results[i].value
    ELSE Null

\* the loop over `results` and the fallback of fetchLyricsHandler
PickResult(results) ==
    IF \E i \in 1..Len(results) :
            results[i].status = "fulfilled" /\ Truthy(results[i].value)
    THEN LET i == CHOOSE i \in 1..Len(results) :
                    /\ results[i].status = "fulfilled" /\ Truthy(results[i].value)
                    /\ \A j \in 1..(i - 1) :
                        ~(results[j].status = "fulfilled" /\ Truthy(results[j].value))
         IN results[i].value
    ELSE Sentinel

\* a promise of `promises` that has not settled
Pending == [status |-> "pending", value |-> Null]

IdleOrch ==
    [pc |-> "idle", query |-> Query(<< >>, << >>, << >>, "", 0),
     tasks |-> << >>, fetched |-> << >>, results |-> << >>, order |-> << >>,
     ret |-> Null]

(***************************************************************************)
(* Lyrics Cache: values.  Times are in days.                               *)
(***************************************************************************)
\* CONFIG.ttlRevalidate, 30 * 24 * 60 * 60 * 1000 ms
TtlRevalidate == 30

\* what fetchLyricsHandler can return (OrchReturnsOneOfThese, under SpecOrch)
OrchReturns ==
    { Sentinel, List(<< >>), List(ParsedLines(DocOne)),
      List(ParsedLines(DocA)), List(ParsedLines(DocB)) }

\* a normalize without toLowerCase; the code does not behave like this
SameCase(c) == c

\* toLowerCase, on the model's alphabet
ToLower(c) ==
    CASE c = "S" -> "s"
      [] c = "M" -> "m"
      [] c = "V" -> "v"
      [] OTHER -> c

\* the characters [a-z0-9 kana CJK] of normalize, as far as the model's
\* strings have them
IsKeyChar(c) == c \in {"s", "o", "m", "v", "U+3042", "U+4E2D"}

\* normalize(str)
RECURSIVE normalize(_)
normalize(str) ==
    IF str = << >> THEN << >>
    ELSE IF IsKeyChar(ToLower(Head(str)))
         THEN <<ToLower(Head(str))>> \o normalize(Tail(str))
         ELSE normalize(Tail(str))

\* getCacheKey(title, artist): CONFIG.storageKeyPrefix + ... + "_" + ...
getCacheKey(title, artist) ==
    <<"lyric_">> \o normalize(title) \o <<"_">> \o normalize(artist)

EmptyCache == [k \in {} |-> 0]

\* the cacheEntry of fetchAndCache, written at time t
CacheEntry(lyrics, t, q) ==
    [lyrics |-> lyrics, createdAt |-> t, updatedAt |-> t, lastAccessed |-> t,
     meta |-> [title |-> q.title, artist |-> q.artist, album |-> q.album,
               duration |-> q.duration]]

\* cached.lastAccessed = now
Touched(cached, t) == [cached EXCEPT !.lastAccessed = t]

\* a revalidation test that also fires at the threshold itself; the code
\* does not behave like this
NeedsRevalidateAtThreshold(cached, t) == t - cached.updatedAt >= TtlRevalidate

\* a revalidation test that never fires; the code does not behave like this
NeverRevalidate(cached, t) == FALSE

\* age > CONFIG.ttlRevalidate, with age = now - (cached.updatedAt || 0)
NeedsRevalidate(cached, t) == t - cached.updatedAt > TtlRevalidate

\* a caching test that accepts a single line; the code does not behave like
\* this
ShouldCacheAnyLine(lyrics) == Truthy(lyrics) /\ Len(lyrics.lines) > 0

\* lyrics && lyrics.length > 1
ShouldCache(lyrics) == Truthy(lyrics) /\ Len(lyrics.lines) > 1

\* { success: true, data: data }
Reply(data) == [success |-> TRUE, data |-> data]

\* a storage.local request
LocalGet(r, key) ==
    [op |-> "get", who |-> r, part |-> "request", key |-> key, entry |-> << >>]
LocalSet(r, part, key, entry) ==
    [op |-> "set", who |-> r, part |-> part, key |-> key, entry |-> <<entry>>]

\* chrome.storage.local.get(null) and chrome.storage.local.remove(keys) of
\* garbageCollectCache
LocalGetAll == [op |-> "getAll"]
LocalRemove(keys) == [op |-> "remove", keys |-> keys]

\* garbageCollectCache before it is called: allData, now and keysToRemove
\* are not yet bound
IdleGc == [pc |-> "idle", allData |-> << >>, now |-> 0, keysToRemove |-> {}]

\* { success: false, error: err.message }
ErrorReply == [success |-> FALSE, error |-> "message"]

\* A fetchLyrics request: its handleLyricsRequest call (pc), the background
\* refresh it may have started (refresh), and what it did; ioError is the
\* storage.local call of handleLyricsRequest or of its fetchAndCache that
\* was rejected ("none", "read" or "write").
IdleReq ==
    [pc |-> "idle", query |-> Query(<< >>, << >>, << >>, "", 0), now |-> 0,
     cached |-> << >>, lyrics |-> Null, resp |-> << >>,
     refresh |-> "none", fetches |-> 0, writes |-> 0, ioError |-> "none"]

(***************************************************************************)
(* Content script: values.                                                 *)
(***************************************************************************)
\* CONFIG.durationMaxRetries
DurationMaxRetries == 20

\* the songs the player bar shows: songId = `${title}|||${artist}`
Songs == {"A", "B"}

\* video.duration once it is a finite number that is not 0
ValidDuration == 200

\* One onSongChanged call that got past the songId test; its number is the
\* fetchRequestId it captured.  pc: where its body is ("wait": suspended in
\* the duration loop, "sent": fetchLyrics sent and the callback pending,
\* "done"); i: how many times the loop has awaited its timer; duration: the
\* duration in the fetchLyrics message; art: its getVerifiedArtwork promise.
NoCall ==
    [pc |-> "none", song |-> "none", i |-> 0, duration |-> 0, art |-> "none"]

\* what DOM.lyrics shows: nothing yet, "Loading...", the lines of the
\* response to call `of`, the line "Lyrics not found", or an error message
Shown(kind, of) == [kind |-> kind, of |-> of]

\* The content script after init(): `state`, the DOM it writes, the
\* extension host it talks to, whether its last step sent updateState, and
\* the call whose response its last step discarded.
IdlePage ==
    [isEnabled |-> TRUE, isContextInvalidated |-> FALSE,
     currentSongId |-> "none", fetchRequestId |-> 0, lyrics |-> 0,
     shown |-> Shown("none", 0), artwork |-> 0, layout |-> FALSE,
     host |-> "alive", sentUpdate |-> FALSE, discarded |-> 0,
     calls |-> [k \in Calls |-> NoCall]]

(***************************************************************************)
(* Match Scorer: calculateScore.  A character outside ASCII is written     *)
(* "U+" and its code point.  Durations are in seconds.                     *)
(***************************************************************************)
\* the code point of a character of the model's alphabet
CodePoint(c) ==
    CASE c = " " -> 32   [] c = "(" -> 40   [] c = ")" -> 41
      [] c = "<" -> 60   [] c = ">" -> 62   [] c = "M" -> 77
      [] c = "S" -> 83   [] c = "V" -> 86   [] c = "[" -> 91
      [] c = "]" -> 93   [] c = "m" -> 109  [] c = "o" -> 111
      [] c = "s" -> 115  [] c = "v" -> 118  [] c = "{" -> 123
      [] c = "}" -> 125
      [] c = "U+0436" -> 1078     \* Cyrillic zhe
      [] c = "U+044F" -> 1103     \* Cyrillic ya
      [] c = "U+3042" -> 12354    \* Hiragana a
      [] c = "U+4E2D" -> 20013    \* the ideograph "middle"
      [] c = "U+AC00" -> 44032    \* Hangul ga

\* the languages SCRIPT_REGEX has a pattern for
ScriptLangs == {"ja", "ko", "zh", "ru"}

\* SCRIPT_REGEX[lang] matched against one character.  The class of 'ja' is
\* [\u3-...-\u9FFF] with the character U+2026 in the place of the dots:
\* without the u flag this is the letter u, the range from the digit 3 to
\* U+2026, the hyphen, and U+9FFF.
InScriptClass(lang, c) ==
    LET n == CodePoint(c) IN
    CASE lang = "ja" -> n = 117 \/ n \in 51..8230 \/ n = 45 \/ n = 40959
      [] lang = "ko" -> n \in 44032..55215
      [] lang = "zh" -> n \in 19968..40959
      [] lang = "ru" -> n \in 1024..1279

\* targetRegex && targetRegex.test(lyricsSample)
ScriptTest(userLang, lyricsSample) ==
    /\ userLang \in ScriptLangs
    /\ \E i \in 1..Len(lyricsSample) : InScriptClass(userLang, lyricsSample[i])

\* (lang || "").split('-')[0], a language tag being the sequence of its
\* subtags
PrimarySubtag(lang) == IF lang = << >> THEN "" ELSE Head(lang)

\* a.includes(b)
Includes(a, b) ==
    \E i \in 0..(Len(a) - Len(b)) : SubSeq(a, i + 1, i + Len(b)) = b

\* a catalog record as calculateScore reads it
Record(trackName, artistName, duration, syncedLyrics, instrumental) ==
    [trackName |-> trackName, artistName |-> artistName, duration |-> duration,
     syncedLyrics |-> syncedLyrics, instrumental |-> instrumental]

\* checkArtistMatch(artistA, artistB)
checkArtistMatch(artistA, artistB) ==
    LET normA == normalize(artistA)
        normB == normalize(artistB) IN
    IF normA = normB THEN 100
    ELSE IF Includes(normA, normB) \/ Includes(normB, normA) THEN 80
    ELSE 0

\* Math.abs
Abs(x) == IF x < 0 THEN -x ELSE x

\* targetDuration > 0 && item.duration
HasDurations(item, targetDuration) == targetDuration > 0 /\ item.duration # 0

\* a scorer without the `return -1000`; the code does not behave like this
NoDurationCutoff(item, targetDuration) == FALSE

\* the duration block returns -1000
DurationCutoff(item, targetDuration) ==
    /\ HasDurations(item, targetDuration)
    /\ Abs(item.duration - targetDuration) > 10

\* what the duration block adds to the score when it does not return
DurationTerm(item, targetDuration) ==
    LET diff == Abs(item.duration - targetDuration) IN
    IF ~HasDurations(item, targetDuration) THEN 0
    ELSE IF diff <= 2 THEN 50
    ELSE IF diff <= 5 THEN 20
    ELSE -50

\* what the title block adds
TitleTerm(item, qTitle) ==
    LET iTitle == normalize(item.trackName)
        qT == normalize(qTitle) IN
    IF iTitle = qT THEN 40
    ELSE IF Includes(iTitle, qT) \/ Includes(qT, iTitle) THEN 20
    ELSE 0

\* what the script block adds
ScriptTerm(item, userLang) ==
    IF ScriptTest(userLang, item.syncedLyrics) THEN 100 ELSE 0

\* a scorer without the instrumental penalty; the code does not behave
\* like this
NoInstrumentalTerm(item) == 0

\* if (item.instrumental) score -= 100
InstrumentalTerm(item) == IF item.instrumental THEN -100 ELSE 0

\* calculateScore(item, qTitle, qArtist, userLang, targetDuration)
calculateScore(item, qTitle, qArtist, userLang, targetDuration) ==
    LET artistMatchScore == checkArtistMatch(item.artistName, qArtist) IN
    IF artistMatchScore = 0 THEN -9999
    ELSE IF DurationCutoff(item, targetDuration) THEN -1000
    ELSE artistMatchScore + DurationTerm(item, targetDuration)
            + TitleTerm(item, qTitle) + ScriptTerm(item, userLang)
            + InstrumentalTerm(item)

\* One call of calculateScore by tryApiSearch: the record, the arguments of
\* tryApiSearch, and the score once it is computed.
IdleMatch ==
    [pc |-> "idle", item |-> Record(<< >>, << >>, 0, << >>, FALSE),
     title |-> << >>, artist |-> << >>, lang |-> << >>, duration |-> 0,
     score |-> 0]

(***************************************************************************)
(* Handler invocations.                                                    *)
(***************************************************************************)
\* A listener invocation: which listener (kind), where it is suspended (pc),
\* its tabId and request.data, its `store` object (local), the ids
\* chrome.tabs.query gave it once it has asked (live), whether it deleted an entry (changed),
\* the storeUpdated messages it sent, the response it gave, and how the
\* promise of its sendMessage settled (delivery).
IdleProc ==
    [kind |-> "none", pc |-> "idle", tab |-> 0, data |-> EmptyStore,
     local |-> EmptyStore, live |-> << >>, changed |-> FALSE, sent |-> << >>,
     resp |-> << >>, delivery |-> "none"]

\* no text function has been called
NoTextCall == [pc |-> "idle", lines |-> << >>, arg |-> << >>, result |-> << >>]

\* the popup page is not open: no script of it runs and nothing listens for
\* storeUpdated
NoPopup == [open |-> FALSE, players |-> << >>, currentIndex |-> 0,
            isInitialized |-> FALSE, snapshot |-> "none"]

\* popup.js as loaded: `state` as declared, the onMessage listener attached,
\* getStoreSnapshot sent by init and its callback not yet run
LoadedPopup == [NoPopup EXCEPT !.open = TRUE, !.snapshot = "pending"]

GetPcs == {"u_get", "r_get", "z_get", "s_get"}
SetPcs == {"u_set", "r_set", "z_set", "c_set"}

AfterServe(pc) ==
    CASE pc = "u_get" -> "u_got"
      [] pc = "r_get" -> "r_got"
      [] pc = "z_get" -> "z_got"
      [] pc = "s_get" -> "s_got"
      [] pc = "u_set" -> "u_setdone"
      [] pc = "r_set" -> "r_setdone"
      [] pc = "z_set" -> "z_setdone"
      [] pc = "c_set" -> "done"

\* A tab shows a page of music.youtube.com ("ytm"), a page of another site
\* whose URL text contains "music.youtube.com" ("mention") or any other page
\* ("other"), or it is closed.  The tab.url an onUpdated listener is given
\* is that page's URL, or undefined ("none") for a page of another site the
\* extension has no host permission for.
Urls == {"mention", "other", "none"}

\* the page a tab shows after navigating to `url`
PageOf(url) == IF url = "none" THEN "other" ELSE url

\* chrome.tabs.query({ url: "*://music.youtube.com/*" }) mapped to ids
ActualTabIds == {t \in Tabs : tabUrl[t] = "ytm"}

\* tab.url.includes('music.youtube.com')
UrlIncludesDomain(url) == url \in {"ytm", "mention"}

\* the test of the onUpdated listener: !tab.url || !tab.url.includes(...)
NotOnDomain(url) == url = "none" \/ ~UrlIncludesDomain(url)

\* Tab ids are opaque keys: a run is told apart from another only by which
\* events concern the same tab, so the tabs enter a run in the order of
\* their ids (the first tab heard of is tab 1, the next new one tab 2, ...).
SeenTabs ==
    {t \in Tabs : tabUrl[t] # "ytm"} \cup {procs[p].tab : p \in Procs}

NextTab(t) == \A u \in Tabs : u < t => u \in SeenTabs

\* an entry an earlier updatePlayerState(1, ...) stored at time 0
EarlierEntry ==
    MakeEntry([title |-> "s2", status |-> "paused", artwork |-> "a2"], 1, 0)

\* The service worker wakes up with no listener running.  The session store
\* outlives the worker's suspensions: it is empty, or it holds the entry of
\* tab 1 from an earlier run of the worker, tab 1 still showing
\* music.youtube.com or having left it for a page whose URL mentions it.
InitStore ==
    /\ orch = IdleOrch
    /\ cache = EmptyCache
    /\ localQ = << >>
    /\ reqs = [r \in Reqs |-> IdleReq]
    /\ \/ /\ session = EmptyStore
          /\ tabUrl = [t \in Tabs |-> "ytm"]
       \/ /\ session = [t \in {1} |-> EarlierEntry]
          /\ \E shows \in {"ytm", "mention"} :
                tabUrl = [t \in Tabs |-> IF t = 1 THEN shows ELSE "ytm"]
    /\ sessQ = << >>
    /\ procs = [p \in Procs |-> IdleProc]
    /\ now = 0
    /\ page = IdlePage
    /\ match = IdleMatch
    /\ gc = IdleGc
    /\ popup = NoPopup
    /\ textCall = NoTextCall

\* a handler invocation starts; invocations are numbered in start order
Begin(p, rec) ==
    /\ procs[p].pc = "idle"
    /\ \A q \in Procs : q < p => procs[q].pc # "idle"
    /\ procs' = [procs EXCEPT ![p] = rec]

\* an onStartup listener that leaves the session store alone; the code does
\* not behave like this
StartupWithoutClear(p) ==
    /\ \A q \in Procs : procs[q].pc = "idle"
    /\ Begin(p, [IdleProc EXCEPT !.kind = "startup", !.pc = "done"])
    /\ gc' = [IdleGc EXCEPT !.pc = "get"]
    /\ localQ' = Append(localQ, LocalGetAll)
    /\ UNCHANGED <<session, sessQ, tabUrl, now, orch, cache, reqs, page, match, popup, textCall>>

\* chrome.runtime.onStartup listener, the first listener to run after the
\* browser started: garbageCollectCache() is called and runs up to its
\* `await chrome.storage.local.get(null)`, then
\* chrome.storage.session.remove(CONFIG.STORE_KEY) is issued and not awaited
\* (a removed key reads as the empty store)
Startup(p) ==
    /\ \A q \in Procs : procs[q].pc = "idle"
    /\ Begin(p, [IdleProc EXCEPT !.kind = "startup", !.pc = "c_set"])
    /\ gc' = [IdleGc EXCEPT !.pc = "get"]
    /\ localQ' = Append(localQ, LocalGetAll)
    /\ sessQ' = Append(sessQ, p)
    /\ UNCHANGED <<session, tabUrl, now, orch, cache, reqs, page, match, popup, textCall>>

\* onMessage, action "updateState": updatePlayerState(sender.tab.id, request.data)
\* up to `await getSessionStore()`; the sender is a content script, which
\* runs in the pages of music.youtube.com
RecvUpdateState(p, tabId, playerData) ==
    /\ tabUrl[tabId] = "ytm"
    /\ NextTab(tabId)
    /\ Begin(p, [IdleProc EXCEPT !.kind = "update", !.pc = "u_get",
                                 !.tab = tabId, !.data = playerData])
    /\ sessQ' = Append(sessQ, p)
    /\ UNCHANGED <<session, tabUrl, now, lyricVars, page, match, popup, textCall, gc>>

\* removePlayerState(tabId) up to `await getSessionStore()`
StartRemove(p, tabId) ==
    /\ Begin(p, [IdleProc EXCEPT !.kind = "remove", !.pc = "r_get", !.tab = tabId])
    /\ sessQ' = Append(sessQ, p)

\* chrome.tabs.onRemoved listener
TabRemoved(p, tabId) ==
    /\ tabUrl[tabId] = "ytm"
    /\ NextTab(tabId)
    /\ tabUrl' = [tabUrl EXCEPT ![tabId] = "closed"]
    /\ StartRemove(p, tabId)
    /\ UNCHANGED <<session, now, lyricVars, page, match, popup, textCall, gc>>

\* chrome.tabs.onUpdated listener with changeInfo.status 'complete', the tab
\* having left music.youtube.com for `url`: the entry is removed when the
\* url is absent or does not contain the domain name
TabUpdated(p, tabId, url) ==
    /\ tabUrl[tabId] = "ytm"
    /\ NextTab(tabId)
    /\ tabUrl' = [tabUrl EXCEPT ![tabId] = PageOf(url)]
    /\ IF NotOnDomain(url)
       THEN StartRemove(p, tabId)
       ELSE p = 1 /\ UNCHANGED <<procs, sessQ>>
    /\ UNCHANGED <<session, now, lyricVars, page, match, popup, textCall, gc>>

\* onMessage, action "getStoreSnapshot": cleanUpZombies() up to its
\* `await getSessionStore()`
RecvGetStoreSnapshot(p) ==
    /\ Begin(p, [IdleProc EXCEPT !.kind = "snapshot", !.pc = "z_get"])
    /\ sessQ' = Append(sessQ, p)
    /\ UNCHANGED <<session, tabUrl, now, lyricVars, page, match, popup, textCall, gc>>

\* the storage backend serves the oldest request: a get copies the stored
\* map for the caller, a set replaces the stored map by the caller's copy
SessServe ==
    /\ sessQ # << >>
    /\ LET p == Head(sessQ) IN
        /\ sessQ' = Tail(sessQ)
        /\ IF procs[p].pc \in GetPcs
           THEN /\ procs' = [procs EXCEPT ![p].local = session,
                                          ![p].pc = AfterServe(procs[p].pc)]
                /\ UNCHANGED session
           ELSE /\ session' = procs[p].local
                /\ procs' = [procs EXCEPT
                        ![p].pc = AfterServe(procs[p].pc),
                        ![p].changed = IF procs[p].pc = "c_set"
                                       THEN session # EmptyStore ELSE @]
    /\ UNCHANGED <<tabUrl, now, lyricVars, page, match, popup, textCall, gc>>

\* updatePlayerState after `await getSessionStore()`: store[tabId] = {...};
\* storage.session.set is issued.  Date.now() is read here and nowhere else
\* by these handlers, so time passes in this step.
UpdateModify(p) ==
    /\ procs[p].pc = "u_got"
    /\ \E t \in now..MaxNow :
        /\ now' = t
        /\ procs' = [procs EXCEPT
                ![p].local = StorePut(procs[p].local, procs[p].tab,
                                      MakeEntry(procs[p].data, procs[p].tab, t)),
                ![p].pc = "u_set"]
    /\ sessQ' = Append(sessQ, p)
    /\ UNCHANGED <<session, tabUrl, lyricVars, page, match, popup, textCall, gc>>

\* updatePlayerState after `await set`: sendMessage storeUpdated
UpdateNotify(p) ==
    /\ procs[p].pc = "u_setdone"
    /\ procs' = [procs EXCEPT ![p].sent = Append(procs[p].sent, procs[p].local),
                              ![p].pc = "done"]
    /\ UNCHANGED <<session, sessQ, tabUrl, now, lyricVars, page, match, popup, textCall, gc>>

\* removePlayerState after `await getSessionStore()`
RemoveModify(p) ==
    /\ procs[p].pc = "r_got"
    /\ IF procs[p].tab \in DOMAIN procs[p].local
       THEN /\ procs' = [procs EXCEPT
                    ![p].local = StoreDel(procs[p].local, procs[p].tab),
                    ![p].changed = TRUE,
                    ![p].pc = "r_set"]
            /\ sessQ' = Append(sessQ, p)
       ELSE /\ procs' = [procs EXCEPT ![p].pc = "done"]
            /\ UNCHANGED sessQ
    /\ UNCHANGED <<session, tabUrl, now, lyricVars, page, match, popup, textCall, gc>>

\* removePlayerState after `await set`: sendMessage storeUpdated
RemoveNotify(p) ==
    /\ procs[p].pc = "r_setdone"
    /\ procs' = [procs EXCEPT ![p].sent = Append(procs[p].sent, procs[p].local),
                              ![p].pc = "done"]
    /\ UNCHANGED <<session, sessQ, tabUrl, now, lyricVars, page, match, popup, textCall, gc>>

\* cleanUpZombies after `await getSessionStore()`: an empty store returns at
\* once (the handler goes on to its own getSessionStore), otherwise
\* chrome.tabs.query is awaited
ZombiesRead(p) ==
    /\ procs[p].pc = "z_got"
    /\ IF DOMAIN procs[p].local = {}
       THEN /\ procs' = [procs EXCEPT ![p].pc = "s_get"]
            /\ sessQ' = Append(sessQ, p)
       ELSE /\ procs' = [procs EXCEPT ![p].pc = "z_query"]
            /\ UNCHANGED sessQ
    /\ UNCHANGED <<session, tabUrl, now, lyricVars, page, match, popup, textCall, gc>>

\* cleanUpZombies after `await chrome.tabs.query`: the delete loop, then
\* storage.session.set when something was deleted
ZombiesSweep(p) ==
    /\ procs[p].pc = "z_query"
    /\ LET changed == ZombiesChanged(procs[p].local, ActualTabIds) IN
        /\ procs' = [procs EXCEPT
                ![p].local = ZombiesRemoved(procs[p].local, ActualTabIds),
                ![p].live = <<ActualTabIds>>,
                ![p].changed = changed,
                ![p].pc = IF changed THEN "z_set" ELSE "s_get"]
        /\ sessQ' = Append(sessQ, p)
    /\ UNCHANGED <<session, tabUrl, now, lyricVars, page, match, popup, textCall, gc>>

\* cleanUpZombies returns after its `await set`; the handler issues
\* `await getSessionStore()`
ZombiesDone(p) ==
    /\ procs[p].pc = "z_setdone"
    /\ procs' = [procs EXCEPT ![p].pc = "s_get"]
    /\ sessQ' = Append(sessQ, p)
    /\ UNCHANGED <<session, tabUrl, now, lyricVars, page, match, popup, textCall, gc>>

\* getStoreSnapshot: sendResponse(store)
SnapshotRespond(p) ==
    /\ procs[p].pc = "s_got"
    /\ procs' = [procs EXCEPT ![p].resp = Append(procs[p].resp, procs[p].local),
                              ![p].pc = "done"]
    /\ UNCHANGED <<session, sessQ, tabUrl, now, lyricVars, page, match, popup, textCall, gc>>

NextStore ==
    \/ \E p \in Procs : Startup(p)
    \/ \E p \in Procs, t \in Tabs, d \in PlayerData : RecvUpdateState(p, t, d)
    \/ \E p \in Procs, t \in Tabs : TabRemoved(p, t)
    \/ \E p \in Procs, t \in Tabs, u \in Urls : TabUpdated(p, t, u)
    \/ \E p \in Procs : RecvGetStoreSnapshot(p)
    \/ SessServe
    \/ \E p \in Procs : UpdateModify(p)
    \/ \E p \in Procs : UpdateNotify(p)
    \/ \E p \in Procs : RemoveModify(p)
    \/ \E p \in Procs : RemoveNotify(p)
    \/ \E p \in Procs : ZombiesRead(p)
    \/ \E p \in Procs : ZombiesSweep(p)
    \/ \E p \in Procs : ZombiesDone(p)
    \/ \E p \in Procs : SnapshotRespond(p)

Spec == InitStore /\ [][NextStore]_vars

(***************************************************************************)
(* Player State Store: claims.                                             *)
(***************************************************************************)
\* no storage request is pending and no handler is suspended
Quiescent ==
    /\ sessQ = << >>
    /\ \A p \in Procs : procs[p].pc \in {"idle", "done"}

\* C1: when the only handlers that ran are updateState handlers and all
\* of them have completed, the store holds an entry for every instance
\* that sent one (no upsert is lost).
C1_NoUpsertLost ==
    (/\ Quiescent
     /\ \A p \in Procs : procs[p].kind \in {"none", "update"})
    => \A p \in Procs :
           procs[p].kind = "update" => procs[p].tab \in DOMAIN session

\* C2: once every operation in flight has completed, an instance reported
\* closed or navigated away (a removePlayerState was started for it) has no
\* entry in the store, unless an updateState from it was received after
\* the report.
C2_RemovedStaysRemoved ==
    Quiescent =>
        \A r \in Procs :
            procs[r].kind = "remove" =>
                \/ procs[r].tab \notin DOMAIN session
                \/ \E u \in Procs : /\ u > r
                                    /\ procs[u].kind = "update"
                                    /\ procs[u].tab = procs[r].tab

\* C10: a reconcile that removed a stored instance has emitted exactly one
\* change notification by the time its getStoreSnapshot request is
\* answered, and a reconcile that removed nothing has emitted none.
C10_ReconcileNotifiesOnce ==
    \A p \in Procs :
        (procs[p].kind = "snapshot" /\ procs[p].pc = "done") =>
            Len(procs[p].sent) = (IF procs[p].changed THEN 1 ELSE 0)

\* the step in which the storage backend serves the write that invocation
\* p issued at `pc`
ServesSetOf(p, pc) ==
    /\ sessQ # << >>
    /\ Head(sessQ) = p
    /\ procs[p].pc = pc
    /\ sessQ' = Tail(sessQ)

\* C11: when the write of a reconcile takes effect, the stored ids become
\* the previous ids intersected with the live set it queried: exactly the
\* entries whose id is not live are deleted and every retained entry is
\* unchanged.
C11_ReconcileDeletesExactlyNotLive ==
    [][\A p \in Procs :
            ServesSetOf(p, "z_set")
                => session' = ZombiesRemoved(session, procs[p].live[1])]_vars

\* the step in which invocation p ends
Finishes(p) == procs[p].pc # "done" /\ procs'[p].pc = "done"

\* invocation p changed the persisted store: it upserted, it deleted an
\* entry, or its startup clear is emptying a store that held something
ChangedStore(p) ==
    \/ procs[p].kind = "update"
    \/ procs[p].changed
    \/ procs[p].kind = "startup" /\ session' # session

\* C12: every change of the persisted store (an upsert, a remove of a
\* present entry, a deletion by reconcile, the startup clear) is followed by
\* a storeUpdated notification: a listener that changed the store has sent
\* one by the time it ends.
C12_EveryChangeNotified ==
    [][\A p \in Procs :
            (Finishes(p) /\ ChangedStore(p)) => Len(procs'[p].sent) >= 1]_vars

\* C13: the map a getStoreSnapshot request is answered with has been
\* reconciled: it holds no entry whose id was absent from the live set that
\* was queried while serving the request, whatever upserts and removes are
\* handled at the same time.
C13_SnapshotHoldsNoZombie ==
    \A p \in Procs :
        (/\ procs[p].kind = "snapshot"
         /\ procs[p].pc = "done"
         /\ procs[p].live # << >>)
            => DOMAIN procs[p].resp[1] \subseteq procs[p].live[1]

\* the fields of `new` laid over those of `old`
Merged(old, new) ==
    [f \in DOMAIN old \cup DOMAIN new |->
        IF f \in DOMAIN new THEN new[f] ELSE old[f]]

\* the store after the entry that invocation p built for its tab has been
\* merged into it
Upserted(store, p) ==
    LET tabId == procs[p].tab
        new == procs[p].local[tabId]
    IN StorePut(store, tabId,
                IF tabId \in DOMAIN store THEN Merged(store[tabId], new)
                ELSE new)

\* C14: an upsert merges the snapshot's fields into the stored state of its
\* instance with lastUpdated set, leaves every other instance's entry
\* unchanged, and sends one notification, which carries the full updated
\* map.
C14_UpsertMergesAndNotifies ==
    [][\A p \in Procs :
            /\ ServesSetOf(p, "u_set") => session' = Upserted(session, p)
            /\ (Finishes(p) /\ procs[p].kind = "update")
                    => procs'[p].sent = <<session>>]_vars

\* C15: a remove of a stored instance deletes exactly that entry, leaves
\* every other entry unchanged and notifies once; a remove of an absent
\* instance writes nothing and notifies nobody.
C15_RemoveDeletesExactlyOne ==
    [][\A p \in Procs :
            /\ ServesSetOf(p, "r_set")
                    => session' = StoreDel(session, procs[p].tab)
            /\ (Finishes(p) /\ procs[p].kind = "remove")
                    => Len(procs'[p].sent) = (IF procs[p].changed THEN 1 ELSE 0)
            /\ (/\ procs[p].pc = "r_got"
                /\ procs[p].tab \notin DOMAIN procs[p].local
                /\ procs'[p] # procs[p])
                    => /\ procs'[p].pc = "done"
                       /\ sessQ' = sessQ
                       /\ session' = session]_vars

\* no upsert has written to the store yet
NoUpsertWritten ==
    \A u \in Procs :
        procs[u].kind = "update" => procs[u].pc \in {"u_get", "u_got", "u_set"}

\* C16: the store is cleared on startup: a getStoreSnapshot answered after
\* the startup listener ran and before any new upsert was written gets the
\* empty map, whatever the store held before.
C16_StartupClearsStore ==
    \A s, p \in Procs :
        (/\ procs[s].kind = "startup"
         /\ procs[p].kind = "snapshot"
         /\ procs[p].pc = "done"
         /\ NoUpsertWritten)
            => procs[p].resp = <<EmptyStore>>

\* C16 witness: the startup clear emptied a store that held the entry of a
\* tab still open on music.youtube.com, and a snapshot was then answered
\* with the empty map
C16_Witness ==
    \E s, p \in Procs :
        /\ procs[s].kind = "startup"
        /\ procs[s].changed
        /\ tabUrl[1] = "ytm"
        /\ procs[p].kind = "snapshot"
        /\ procs[p].pc = "done"
        /\ procs[p].resp = <<EmptyStore>>

(***************************************************************************)
(* Source Orchestrator: one call of fetchLyricsHandler.                    *)
(***************************************************************************)
QueryTitles == { << >>, <<"S">>, <<"S", " ", "(", "o", ")">> }
QueryArtists == { <<"S">>, <<"S", " ", "M", "V">> }
QueryDurations == {0, 200}

Queries ==
    { Query(t, a, << >>, "ja", d) :
        t \in QueryTitles, a \in QueryArtists, d \in QueryDurations }

InitOrch ==
    /\ orch = IdleOrch
    /\ cache = EmptyCache
    /\ localQ = << >>
    /\ reqs = [r \in Reqs |-> IdleReq]
    /\ session = EmptyStore
    /\ sessQ = << >>
    /\ procs = [p \in Procs |-> IdleProc]
    /\ tabUrl = [t \in Tabs |-> "ytm"]
    /\ now = 0
    /\ page = IdlePage
    /\ match = IdleMatch
    /\ gc = IdleGc
    /\ popup = NoPopup
    /\ textCall = NoTextCall

\* fetchLyricsHandler up to `await Promise.allSettled(promises)`: every task
\* is started
OrchStart(q) ==
    /\ orch.pc = "idle"
    /\ orch' = [orch EXCEPT !.pc = "waiting", !.query = q, !.tasks = Tasks(q),
                            !.fetched = [i \in 1..Len(Tasks(q)) |-> NoResponse],
                            !.results = [i \in 1..Len(Tasks(q)) |-> Pending]]
    /\ UNCHANGED <<storeVars, page, match, popup, textCall, gc, now, cacheVars>>

\* the promise of task i settles, its fetch having ended as `res`
TaskSettles(i, res) ==
    /\ orch.pc = "waiting"
    /\ i \in 1..Len(orch.tasks)
    /\ orch.results[i] = Pending
    /\ res \in ResponsesOf(orch.tasks[i], orch.query)
    /\ orch' = [orch EXCEPT
            !.fetched[i] = res,
            !.results[i] = Settled(TaskValue(orch.tasks[i], orch.query, res)),
            !.order = Append(orch.order, i)]
    /\ UNCHANGED <<storeVars, page, match, popup, textCall, gc, now, cacheVars>>

\* Promise.allSettled resolves; fetchLyricsHandler returns
OrchReturn ==
    /\ orch.pc = "waiting"
    /\ \A i \in 1..Len(orch.tasks) : orch.results[i] # Pending
    /\ orch' = [orch EXCEPT !.pc = "done", !.ret = PickResult(orch.results)]
    /\ UNCHANGED <<storeVars, page, match, popup, textCall, gc, now, cacheVars>>

NextOrch ==
    \/ \E q \in Queries : OrchStart(q)
    \/ \E i \in 1..4, res \in GetResponses \cup SearchResponses \cup {NoResponse} :
            TaskSettles(i, res)
    \/ OrchReturn

SpecOrch == InitOrch /\ [][NextOrch]_vars

(***************************************************************************)
(* Source Orchestrator: claims.                                            *)
(***************************************************************************)
\* what the cache model takes fetchLyricsHandler to return
OrchReturnsOneOfThese == orch.pc = "done" => orch.ret \in OrchReturns

\* task i was fulfilled with a list
Succeeded(i) ==
    orch.results[i].status = "fulfilled" /\ ~orch.results[i].value.isNull

\* C3: the returned list is the result of the highest-priority task that
\* produced a non-null result, in whatever order the tasks settled.
C3_PriorityNotCompletionOrder ==
    orch.pc = "done" =>
        \A i \in 1..Len(orch.tasks) :
            (Succeeded(i) /\ \A j \in 1..(i - 1) : ~Succeeded(j))
                => orch.ret = orch.results[i].value

\* C3 witness: strategy A succeeded, a search strategy succeeded with a
\* different list and settled first, and A's list was returned.
C3_Witness ==
    /\ orch.pc = "done"
    /\ Succeeded(1)
    /\ \E i \in 3..Len(orch.tasks) :
        /\ Succeeded(i)
        /\ orch.results[i].value # orch.results[1].value
        /\ orch.order[1] = i
    /\ orch.ret = orch.results[1].value

\* C4: the orchestrator never returns null, and when no task produced a
\* list it returns exactly the sentinel line.
C4_NeverNullSentinelWhenNone ==
    orch.pc = "done" =>
        /\ ~orch.ret.isNull
        /\ (\A i \in 1..Len(orch.tasks) : ~Succeeded(i)) =>
                orch.ret = List(<<[time |-> 0, text |-> "Lyrics not found"]>>)

\* C4 witness: four tasks were issued, one request threw, one answer had an
\* error status, one body did not parse, none produced a list, and the
\* sentinel was returned.
C4_Witness ==
    /\ orch.pc = "done"
    /\ Len(orch.tasks) = 4
    /\ \A i \in 1..4 : ~Succeeded(i)
    /\ \E i \in 1..4 : orch.fetched[i].net = "throw"
    /\ \E i \in 1..4 : orch.fetched[i].net = "ok" /\ orch.fetched[i].status # 200
    /\ \E i \in 1..4 : orch.fetched[i].net = "ok" /\ ~orch.fetched[i].json
    /\ orch.ret = List(<<[time |-> 0, text |-> "Lyrics not found"]>>)

\* C5: a task whose fetch failed is fulfilled with null (its promise is not
\* rejected), the orchestrator returns only after every task has settled,
\* and when some fetch failed the list of the highest-priority task that
\* succeeded is still what is returned.
C5_FailureIsNullOfThatStrategyOnly ==
    /\ \A i \in 1..Len(orch.tasks) :
            (orch.results[i] # Pending /\ IsFailure(orch.fetched[i]))
                => orch.results[i] = [status |-> "fulfilled", value |-> Null]
    /\ orch.pc = "done" =>
        /\ \A i \in 1..Len(orch.tasks) : orch.results[i].status = "fulfilled"
        /\ \A i \in 1..Len(orch.tasks) :
            (/\ \E f \in 1..Len(orch.tasks) : f # i /\ IsFailure(orch.fetched[f])
             /\ Succeeded(i)
             /\ \A j \in 1..(i - 1) : ~Succeeded(j))
                => orch.ret = orch.results[i].value

\* C5 witness: strategies A and B failed (a thrown request, an error
\* status), a search strategy settled after them with a list, and that
\* list was returned.
C5_Witness ==
    /\ orch.pc = "done"
    /\ orch.fetched[1].net = "throw"
    /\ orch.fetched[2].net = "ok" /\ orch.fetched[2].status = 404
    /\ orch.order[1] \in {1, 2}
    /\ Succeeded(3)
    /\ orch.ret = orch.results[3].value

(***************************************************************************)
(* Lyrics Cache: handleLyricsRequest and fetchAndCache.                    *)
(***************************************************************************)
\* two requests for one song, whose texts differ in case and white space
CacheQueries ==
    { Query(<<"S">>, <<"S">>, << >>, "ja", 200),
      Query(<<"s", " ">>, <<"S">>, << >>, "ja", 0) }

\* the instants of the model's clock: day 0, the last day on which an entry
\* written at day 0 is fresh, and the days after it
Instants ==
    {0} \cup { TtlRevalidate + d : d \in 0..MaxLate }

\* the results of fetchLyricsHandler that the cache is exercised with: the
\* sentinel (one line), a list of no line, and a list of several lines
FetchResults ==
    { Sentinel, List(<< >>), List(ParsedLines(DocB)) }

\* The cache survives restarts of the service worker: it starts empty, or
\* with an entry that fetchAndCache wrote at time 0.
InitCache ==
    /\ \/ cache = EmptyCache
       \/ \E q \in CacheQueries :
            cache = [k \in {getCacheKey(q.title, q.artist)} |->
                        CacheEntry(List(ParsedLines(DocA)), 0, q)]
    /\ localQ = << >>
    /\ reqs = [r \in Reqs |-> IdleReq]
    /\ now = 0
    /\ orch = IdleOrch
    /\ session = EmptyStore
    /\ sessQ = << >>
    /\ procs = [p \in Procs |-> IdleProc]
    /\ tabUrl = [t \in Tabs |-> "ytm"]
    /\ page = IdlePage
    /\ match = IdleMatch
    /\ gc = IdleGc
    /\ popup = NoPopup
    /\ textCall = NoTextCall

\* time passes
ClockAdvance(t) ==
    /\ t \in Instants
    /\ t > now
    /\ now' = t
    /\ UNCHANGED <<storeVars, page, match, popup, textCall, gc, orch, cacheVars>>

\* onMessage, action "fetchLyrics": handleLyricsRequest(request) up to
\* `await chrome.storage.local.get(key)`
RecvFetchLyrics(r, q) ==
    /\ reqs[r].pc = "idle"
    /\ \A h \in Reqs : h < r => reqs[h].pc # "idle"
    /\ reqs' = [reqs EXCEPT ![r] = [IdleReq EXCEPT !.pc = "get", !.query = q,
                                                   !.now = now]]
    /\ localQ' = Append(localQ, LocalGet(r, getCacheKey(q.title, q.artist)))
    /\ UNCHANGED <<storeVars, page, match, popup, textCall, gc, now, orch, cache>>

\* the storage backend serves the oldest request: a get hands the caller a
\* copy of the entry (or nothing), a set stores the given entry
LocalServe ==
    /\ localQ # << >>
    /\ Head(localQ).op \in {"get", "set"}
    /\ LET x == Head(localQ) IN
        /\ localQ' = Tail(localQ)
        /\ IF x.op = "get"
           THEN /\ reqs' = [reqs EXCEPT
                        ![x.who].cached = IF x.key \in DOMAIN cache
                                          THEN <<cache[x.key]>> ELSE << >>,
                        ![x.who].pc = "got"]
                /\ UNCHANGED cache
           ELSE /\ cache' = [k \in DOMAIN cache \cup {x.key} |->
                                IF k = x.key THEN x.entry[1] ELSE cache[k]]
                /\ reqs' = [reqs EXCEPT
                        ![x.who].pc =
                            IF x.part = "request" THEN "written" ELSE @,
                        ![x.who].refresh =
                            IF x.part = "refresh" THEN "done" ELSE @]
    /\ UNCHANGED <<storeVars, page, match, popup, textCall, gc, now, orch>>

\* handleLyricsRequest after the get.  Hit: the entry is touched and written
\* back (not awaited), a refresh is started when the entry is past the
\* revalidation threshold, and cached.lyrics is returned, which the message
\* listener sends as the reply.  Miss: fetchAndCache is awaited.
CacheLookedUp(r) ==
    /\ reqs[r].pc = "got"
    /\ LET q == reqs[r].query
           key == getCacheKey(q.title, q.artist) IN
       IF reqs[r].cached # << >>
       THEN LET cached == Touched(reqs[r].cached[1], reqs[r].now)
                stale == NeedsRevalidate(cached, reqs[r].now) IN
            /\ localQ' = Append(localQ, LocalSet(r, "touch", key, cached))
            /\ reqs' = [reqs EXCEPT
                    ![r].cached = <<cached>>,
                    ![r].refresh = IF stale THEN "fetching" ELSE "none",
                    ![r].fetches = IF stale THEN 1 ELSE 0,
                    ![r].resp = <<Reply(cached.lyrics)>>,
                    ![r].pc = "done"]
       ELSE /\ reqs' = [reqs EXCEPT ![r].pc = "fetching", ![r].fetches = 1]
            /\ UNCHANGED localQ
    /\ UNCHANGED <<storeVars, page, match, popup, textCall, gc, now, orch, cache>>

\* fetchAndCache of a miss after `await fetchLyricsHandler(...)`: a result
\* of more than one line is written to the cache (awaited), any other is
\* returned at once
MissFetched(r, lyrics) ==
    /\ reqs[r].pc = "fetching"
    /\ LET q == reqs[r].query IN
       IF ShouldCache(lyrics)
       THEN /\ localQ' = Append(localQ,
                    LocalSet(r, "request", getCacheKey(q.title, q.artist),
                             CacheEntry(lyrics, now, q)))
            /\ reqs' = [reqs EXCEPT ![r].lyrics = lyrics, ![r].writes = 1,
                                    ![r].pc = "writing"]
       ELSE /\ reqs' = [reqs EXCEPT ![r].lyrics = lyrics,
                                    ![r].resp = <<Reply(lyrics)>>,
                                    ![r].pc = "done"]
            /\ UNCHANGED localQ
    /\ UNCHANGED <<storeVars, page, match, popup, textCall, gc, now, orch, cache>>

\* fetchAndCache of a miss after `await chrome.storage.local.set`: the
\* lyrics are returned and sent as the reply
MissWritten(r) ==
    /\ reqs[r].pc = "written"
    /\ reqs' = [reqs EXCEPT ![r].resp = <<Reply(reqs[r].lyrics)>>, ![r].pc = "done"]
    /\ UNCHANGED <<storeVars, page, match, popup, textCall, gc, now, orch, cache, localQ>>

\* a background refresh that writes whatever it fetched; the code does not
\* behave like this
RefreshFetchedWritesAny(r, lyrics) ==
    /\ reqs[r].refresh = "fetching"
    /\ localQ' = Append(localQ,
            LocalSet(r, "refresh",
                     getCacheKey(reqs[r].query.title, reqs[r].query.artist),
                     CacheEntry(lyrics, now, reqs[r].query)))
    /\ reqs' = [reqs EXCEPT ![r].refresh = "writing", ![r].writes = 1]
    /\ UNCHANGED <<storeVars, page, match, popup, textCall, gc, now, orch, cache>>

\* fetchAndCache of a background refresh after `await fetchLyricsHandler`
RefreshFetched(r, lyrics) ==
    /\ reqs[r].refresh = "fetching"
    /\ LET q == reqs[r].query IN
       IF ShouldCache(lyrics)
       THEN /\ localQ' = Append(localQ,
                    LocalSet(r, "refresh", getCacheKey(q.title, q.artist),
                             CacheEntry(lyrics, now, q)))
            /\ reqs' = [reqs EXCEPT ![r].refresh = "writing", ![r].writes = 1]
       ELSE /\ reqs' = [reqs EXCEPT ![r].refresh = "done"]
            /\ UNCHANGED localQ
    /\ UNCHANGED <<storeVars, page, match, popup, textCall, gc, now, orch, cache>>

\* a background refresh whose fetchLyricsHandler call rejects (sanitize
\* throws on an album that is not a string): `.catch(() => {})` swallows it
RefreshFailed(r) ==
    /\ reqs[r].refresh = "fetching"
    /\ reqs' = [reqs EXCEPT ![r].refresh = "failed"]
    /\ UNCHANGED <<storeVars, page, match, popup, textCall, gc, now, orch, cache, localQ>>

NextCache ==
    \/ \E t \in Instants : ClockAdvance(t)
    \/ \E r \in Reqs, q \in CacheQueries : RecvFetchLyrics(r, q)
    \/ LocalServe
    \/ \E r \in Reqs : CacheLookedUp(r)
    \/ \E r \in Reqs, lyrics \in FetchResults : MissFetched(r, lyrics)
    \/ \E r \in Reqs : MissWritten(r)
    \/ \E r \in Reqs, lyrics \in FetchResults : RefreshFetched(r, lyrics)
    \/ \E r \in Reqs : RefreshFailed(r)

SpecCache == InitCache /\ [][NextCache]_vars

(***************************************************************************)
(* Lyrics Cache: claims.                                                   *)
(***************************************************************************)
\* the request was answered from the cache
IsHit(r) == reqs[r].pc = "done" /\ reqs[r].cached # << >>

\* the request found no entry and its fetch has settled
IsSettledMiss(r) ==
    /\ reqs[r].cached = << >>
    /\ reqs[r].pc \in {"writing", "written", "done"}

\* now - updatedAt of the entry the request read
AgeRead(r) == reqs[r].now - reqs[r].cached[1].updatedAt

\* C6: no write races on the Lyrics Cache: once an entry with updatedAt = t
\* is stored under a key, the key never afterwards holds an entry with a
\* smaller updatedAt.
C6_UpdatedAtNeverDecreases ==
    [][\A k \in DOMAIN cache :
            cache'[k].updatedAt >= cache[k].updatedAt]_vars

\* C7: a hit on an entry whose age does not exceed the revalidation
\* threshold returns the cached lyrics, calls fetchLyricsHandler not once
\* and starts no refresh.
C7_FreshHitNoNetwork ==
    \A r \in Reqs :
        (IsHit(r) /\ AgeRead(r) <= TtlRevalidate)
            => /\ reqs[r].fetches = 0
               /\ reqs[r].refresh = "none"
               /\ reqs[r].writes = 0
               /\ reqs[r].resp = <<Reply(reqs[r].cached[1].lyrics)>>

\* C7 witness: a hit answered on the very last day the entry was fresh
C7_Witness ==
    \E r \in Reqs :
        /\ IsHit(r)
        /\ AgeRead(r) = TtlRevalidate
        /\ reqs[r].resp = <<Reply(reqs[r].cached[1].lyrics)>>

\* C8: a hit on an entry older than the revalidation threshold is answered
\* with the cached lyrics in the step that starts the refresh, exactly one
\* refresh is started, and whatever the refresh does (writes a new entry,
\* gets the sentinel, fails) the answer stays the cached lyrics.
C8_StaleHitAnswersThenRefreshesOnce ==
    \A r \in Reqs :
        (IsHit(r) /\ AgeRead(r) > TtlRevalidate)
            => /\ reqs[r].resp = <<Reply(reqs[r].cached[1].lyrics)>>
               /\ reqs[r].fetches = 1
               /\ reqs[r].refresh \in {"fetching", "writing", "done", "failed"}

\* C8 witness: a stale hit was answered with the old lyrics, and its refresh
\* has since stored other lyrics under the key
C8_Witness ==
    \E r \in Reqs :
        LET key == getCacheKey(reqs[r].query.title, reqs[r].query.artist) IN
        /\ IsHit(r)
        /\ AgeRead(r) > TtlRevalidate
        /\ reqs[r].refresh = "done"
        /\ reqs[r].writes = 1
        /\ key \in DOMAIN cache
        /\ cache[key].lyrics # reqs[r].cached[1].lyrics
        /\ reqs[r].resp = <<Reply(reqs[r].cached[1].lyrics)>>

\* C9: the result of a miss is written to the cache exactly when it has more
\* than one line; so the sentinel is never stored or queued for storing,
\* every entry has at least two lines, and a miss that ends in the sentinel
\* writes nothing.
C9_MissCachedIffSeveralLines ==
    /\ \A r \in Reqs :
            IsSettledMiss(r)
                => (reqs[r].writes = 1 <=> Len(reqs[r].lyrics.lines) > 1)
    /\ \A k \in DOMAIN cache :
            cache[k].lyrics # Sentinel /\ Len(cache[k].lyrics.lines) >= 2
    /\ \A i \in 1..Len(localQ) :
            localQ[i].op = "set"
                => /\ localQ[i].entry[1].lyrics # Sentinel
                   /\ Len(localQ[i].entry[1].lyrics.lines) >= 2

\* C9 witness: one miss ended in the sentinel and wrote nothing, another
\* ended in a list of several lines, which the cache now holds
C9_Witness ==
    \E r1, r2 \in Reqs :
        LET key == getCacheKey(reqs[r2].query.title, reqs[r2].query.artist) IN
        /\ IsSettledMiss(r1) /\ reqs[r1].pc = "done"
        /\ reqs[r1].lyrics = Sentinel /\ reqs[r1].writes = 0
        /\ IsSettledMiss(r2) /\ reqs[r2].pc = "done"
        /\ reqs[r2].writes = 1
        /\ key \in DOMAIN cache
        /\ cache[key].lyrics = reqs[r2].lyrics

(***************************************************************************)
(* Content script: broadcastCurrentState, onSongChanged, updateLayout.     *)
(***************************************************************************)
\* a step begins: what the previous step sent or discarded is history
Quiet(pg) == [pg EXCEPT !.sentUpdate = FALSE, !.discarded = 0]

\* broadcastCurrentState(force), `shouldSend` being what its test of force,
\* the data hash and the throttle time gives (FALSE also stands for
\* capturePlayerState returning null): chrome.runtime.sendMessage throws when
\* the extension context is gone
Broadcast(pg, shouldSend) ==
    IF pg.isContextInvalidated \/ ~shouldSend THEN pg
    ELSE IF pg.host = "alive" THEN [pg EXCEPT !.sentUpdate = TRUE]
    ELSE [pg EXCEPT !.isContextInvalidated = TRUE]

\* updateLayout(), `open` being whether the app layout has player-page-open
updateLayout(pg, open) ==
    [pg EXCEPT !.layout = pg.isEnabled /\ open /\ ~pg.isContextInvalidated]

\* a sequence test that lets every request pass; the code does not behave
\* like this
AlwaysCurrent(pg, k) == TRUE

\* state.fetchRequestId === currentRequestId
IsCurrent(pg, k) == pg.fetchRequestId = k

\* state.currentSongId === songId
SameSong(pg, k) == pg.currentSongId = pg.calls[k].song

\* a duration loop that runs one round more; the code does not behave like
\* this
LoopEndsLate(i) == i >= DurationMaxRetries + 1

\* the test i < CONFIG.durationMaxRetries fails
LoopEnds(i) == i >= DurationMaxRetries

\* the body of a call has ended
Ended(call) == [call EXCEPT !.pc = "done", !.i = 0, !.duration = 0]

\* onSongChanged after the duration loop: a superseded call returns; the
\* current one sends fetchLyrics, and shows an error when sendMessage throws
AfterWait(pg, k, duration) ==
    IF ~IsCurrent(pg, k)
    THEN [pg EXCEPT !.calls[k] = Ended(@)]
    ELSE IF pg.host = "alive"
    THEN [pg EXCEPT !.calls[k].pc = "sent", !.calls[k].i = 0,
                    !.calls[k].duration = duration]
    ELSE [pg EXCEPT !.isContextInvalidated = TRUE,
                    !.shown = Shown("error", 0),
                    !.calls[k] = Ended(@)]

\* The rounds of a duration loop are counted while its call is the current
\* one.  A call that has been superseded ends at the sequence test whatever
\* its count is, so from then on its count is not kept (i = 0) and its loop
\* may end at any tick.
Uncounted(calls) ==
    [k \in Calls |-> IF calls[k].pc = "wait" THEN [calls[k] EXCEPT !.i = 0]
                     ELSE calls[k]]

\* The song observer (or attachObservers) calls onSongChanged while the
\* player bar shows song s; `valid` is whether video.duration is valid at
\* the first test of the loop.  The call runs up to its first await.
OnSongChanged(s, valid) ==
    LET p0 == Quiet(page) IN
    /\ IF p0.isContextInvalidated THEN page' = p0
       ELSE LET p1 == Broadcast(p0, TRUE) IN
            IF p1.currentSongId = s THEN page' = p1
            ELSE /\ p1.fetchRequestId < MaxChanges
                 /\ LET k == p1.fetchRequestId + 1
                        p2 == [p1 EXCEPT
                                !.currentSongId = s,
                                !.fetchRequestId = k,
                                !.shown = Shown("loading", 0),
                                !.calls = [Uncounted(@) EXCEPT
                                    ![k] = [NoCall EXCEPT !.pc = "wait",
                                                          !.song = s,
                                                          !.art = "pending"]]]
                    IN page' = IF valid THEN AfterWait(p2, k, ValidDuration)
                               ELSE [p2 EXCEPT !.calls[k].i = 1]
    /\ UNCHANGED <<storeVars, now, lyricVars, match, popup, textCall, gc>>

\* The 100 ms timer of call k's duration loop fires: the loop ends when its
\* count is used up, or when the video has a valid duration.
WaitTick(k, valid) ==
    /\ page.calls[k].pc = "wait"
    /\ LET p0 == Quiet(page)
           i == page.calls[k].i
           counted == i > 0
       IN page' = IF counted /\ LoopEnds(i) THEN AfterWait(p0, k, 0)
                  ELSE IF valid THEN AfterWait(p0, k, ValidDuration)
                  ELSE IF counted THEN [p0 EXCEPT !.calls[k].i = i + 1]
                  ELSE p0
    /\ UNCHANGED <<storeVars, now, lyricVars, match, popup, textCall, gc>>

\* the ways the callback of a fetchLyrics message is called: with
\* chrome.runtime.lastError set (no response came), with lyric lines, with
\* no line, or with { success: false }
Responses == {"lastError", "lines", "empty", "failure"}

\* the callback given to sendMessage by call k runs
LyricsCallback(k, response) ==
    /\ page.calls[k].pc = "sent"
    /\ LET p0 == Quiet(page) IN
       page' =
        IF response = "lastError"
        THEN [p0 EXCEPT !.isContextInvalidated = TRUE,
                        !.shown = Shown("error", 0),
                        !.calls[k] = Ended(@)]
        ELSE IF ~IsCurrent(p0, k)
        THEN [p0 EXCEPT !.discarded = k, !.calls[k] = Ended(@)]
        ELSE IF response = "lines"
        THEN [p0 EXCEPT !.lyrics = k,
                        !.shown = Shown("lines", k),
                        !.calls[k] = Ended(@)]
        ELSE [p0 EXCEPT !.lyrics = 0,
                        !.shown = Shown("notfound", 0),
                        !.calls[k] = Ended(@)]
    /\ UNCHANGED <<storeVars, now, lyricVars, match, popup, textCall, gc>>

\* the promise of call k's getVerifiedArtwork(title) is fulfilled, with a
\* url or with null, and the `.then` callback runs
ArtworkDone(k, url) ==
    /\ page.calls[k].art = "pending"
    /\ LET p0 == [Quiet(page) EXCEPT !.calls[k].art = "done"] IN
       page' = IF url /\ SameSong(p0, k)
               THEN Broadcast([p0 EXCEPT !.artwork = k], TRUE)
               ELSE p0
    /\ UNCHANGED <<storeVars, now, lyricVars, match, popup, textCall, gc>>

\* a video event, a forceSync message or the timer of init() calls
\* broadcastCurrentState: play, pause, forceSync and init force the send, a
\* timeupdate sends when the hash changed or the throttle time has passed
BroadcastEvent(force, due) ==
    /\ page' = Broadcast(Quiet(page), force \/ due)
    /\ UNCHANGED <<storeVars, now, lyricVars, match, popup, textCall, gc>>

\* a toggleMode message, or storage.onChanged for isEnabled
ToggleMode(isEnabled, open) ==
    /\ page' = updateLayout([Quiet(page) EXCEPT !.isEnabled = isEnabled], open)
    /\ UNCHANGED <<storeVars, now, lyricVars, match, popup, textCall, gc>>

\* the setInterval callback of init(): nothing once the context is
\* invalidated, updateLayout otherwise
WatchTick(open) ==
    /\ page' = IF page.isContextInvalidated THEN Quiet(page)
               ELSE updateLayout(Quiet(page), open)
    /\ UNCHANGED <<storeVars, now, lyricVars, match, popup, textCall, gc>>

\* the page observer sees player-page-open change and calls updateLayout
PageObserved(open) ==
    /\ page' = updateLayout(Quiet(page), open)
    /\ UNCHANGED <<storeVars, now, lyricVars, match, popup, textCall, gc>>

\* the extension is reloaded, updated or disabled: the context of this
\* content script is gone for good
HostGoes ==
    /\ page.host = "alive"
    /\ page' = [Quiet(page) EXCEPT !.host = "gone"]
    /\ UNCHANGED <<storeVars, now, lyricVars, match, popup, textCall, gc>>

InitContent ==
    /\ page = IdlePage
    /\ match = IdleMatch
    /\ gc = IdleGc
    /\ popup = NoPopup
    /\ textCall = NoTextCall
    /\ orch = IdleOrch
    /\ cache = EmptyCache
    /\ localQ = << >>
    /\ reqs = [r \in Reqs |-> IdleReq]
    /\ session = EmptyStore
    /\ sessQ = << >>
    /\ procs = [p \in Procs |-> IdleProc]
    /\ tabUrl = [t \in Tabs |-> "ytm"]
    /\ now = 0

\* The lyrics flow of the content script.  The artwork lookups are left to
\* SpecArtwork: what their callback does to the fields of this flow is a
\* forced broadcastCurrentState, which BroadcastEvent does here.
NextContent ==
    \/ \E s \in Songs, valid \in BOOLEAN : OnSongChanged(s, valid)
    \/ \E k \in Calls, valid \in BOOLEAN : WaitTick(k, valid)
    \/ \E k \in Calls, response \in Responses : LyricsCallback(k, response)
    \/ \E force, due \in BOOLEAN : BroadcastEvent(force, due)
    \/ \E isEnabled, open \in BOOLEAN : ToggleMode(isEnabled, open)
    \/ \E open \in BOOLEAN : WatchTick(open)
    \/ \E open \in BOOLEAN : PageObserved(open)
    \/ HostGoes

SpecContent == InitContent /\ [][NextContent]_vars

\* The artwork lookups of the content script: song changes, the lookups'
\* completions, and the duration loops and responses of the calls.
NextArtwork ==
    \/ \E s \in Songs, valid \in BOOLEAN : OnSongChanged(s, valid)
    \/ \E k \in Calls, url \in BOOLEAN : ArtworkDone(k, url)
    \/ \E k \in Calls : WaitTick(k, TRUE)
    \/ \E k \in Calls : LyricsCallback(k, "lines")
    \/ HostGoes

SpecArtwork == InitContent /\ [][NextArtwork]_vars

(***************************************************************************)
(* Content script: properties.                                             *)
(***************************************************************************)
\* the callback of call k's fetchLyrics message runs in this step
CallbackRuns(k) == page.calls[k].pc = "sent" /\ page'.calls[k].pc = "done"

\* call k sends its fetchLyrics message in this step
SendsFetch(k) == page.calls[k].pc # "sent" /\ page'.calls[k].pc = "sent"

\* C17: a lyrics response is stored and rendered only when the request id
\* its call captured is state.fetchRequestId as the callback runs; the
\* callback of a superseded call leaves state.lyrics and the display as they
\* are (a callback called with lastError has no response: it shows the
\* extension-invalidated notice), and a call superseded in its duration loop
\* never sends fetchLyrics.
C17_LyricsAppliedOnlyIfCurrent ==
    [][\A k \in Calls :
         /\ (CallbackRuns(k) /\ page.fetchRequestId # k)
                => /\ page'.lyrics = page.lyrics
                   /\ \/ page'.shown = page.shown
                      \/ page'.shown.kind = "error"
         /\ (page'.lyrics = k /\ page.lyrics # k)
                => (CallbackRuns(k) /\ page.fetchRequestId = k)
         /\ (page'.shown = Shown("lines", k) /\ page.shown # page'.shown)
                => (CallbackRuns(k) /\ page.fetchRequestId = k)
         /\ SendsFetch(k) => page'.fetchRequestId = k]_vars

\* the response to a superseded call has just been discarded while the
\* lines of the current call are shown
C17_Witness ==
    /\ page.discarded \in Calls
    /\ page.discarded < page.fetchRequestId
    /\ page.lyrics = page.fetchRequestId
    /\ page.shown = Shown("lines", page.fetchRequestId)

\* C18: the result of an artwork lookup is applied (the image set, the state
\* broadcast again) only when the request id of the call that started the
\* lookup is state.fetchRequestId as the lookup completes, also when the
\* player has come back to an earlier song meanwhile.
C18_ArtworkAppliedOnlyIfCurrent ==
    [][page'.artwork # page.artwork
            => page'.artwork = page.fetchRequestId]_vars

\* C19: once state.isContextInvalidated is true it stays true, and no step
\* after that sends updateState or fetchLyrics or turns the custom layout
\* on.
C19_InvalidatedIsTerminal ==
    [][page.isContextInvalidated
            => /\ page'.isContextInvalidated
               /\ ~page'.sentUpdate
               /\ \A k \in Calls : ~SendsFetch(k)
               /\ page'.layout => page.layout]_vars

\* C20: the duration loop of the current call awaits its timer at most
\* CONFIG.durationMaxRetries times; when the last of these timers fires the
\* loop is over, and the call, still current and with the extension host
\* there, sends fetchLyrics with duration 0.
C20_DurationWaitBounded ==
    [][\A k \in Calls :
         /\ page'.calls[k].i <= DurationMaxRetries
         /\ ( /\ page.calls[k].pc = "wait"
              /\ page.calls[k].i = DurationMaxRetries
              /\ page'.calls[k] # page.calls[k]
              /\ page'.fetchRequestId = k )
                => /\ page'.calls[k].pc # "wait"
                   /\ page.host = "alive"
                        => /\ SendsFetch(k)
                           /\ page'.calls[k].duration = 0]_vars

\* a call has sent fetchLyrics with duration 0, its loop having used up
\* its count
C20_Witness ==
    \E k \in Calls :
        /\ page.calls[k].pc = "sent"
        /\ page.calls[k].duration = 0
        /\ page.fetchRequestId = k

(***************************************************************************)
(* Lyrics Cache with storage failures: a chrome.storage.local call may be  *)
(* rejected, and fetchLyricsHandler may reject.                            *)
(***************************************************************************)
\* a read whose rejection is not caught, so that handleLyricsRequest
\* rejects; the code does not behave like this
ReadFailedUncaught(req) ==
    [req EXCEPT !.ioError = "read", !.resp = <<ErrorReply>>, !.pc = "done"]

\* handleLyricsRequest: `catch (e) { console.warn("[Cache] Read failed") }`
\* leaves cached at null
ReadFailed(req) ==
    [req EXCEPT !.ioError = "read", !.cached = << >>, !.pc = "got"]

\* fetchAndCache: `catch (e) { console.warn("[Cache] Write failed") }`, in
\* the call awaited by the request or in a background refresh
WriteFailed(req, part) ==
    IF part = "request" THEN [req EXCEPT !.ioError = "write", !.pc = "written"]
    ELSE IF part = "refresh" THEN [req EXCEPT !.refresh = "done"]
    ELSE req

\* a listener without its `.catch`: the rejection is answered by nothing;
\* the code does not behave like this
RejectedUnanswered(req) == [req EXCEPT !.pc = "done"]

\* the `.catch` of the fetchLyrics listener: sendResponse({success: false})
Rejected(req) == [req EXCEPT !.resp = <<ErrorReply>>, !.pc = "done"]

\* the storage backend rejects the oldest request: nothing is read and
\* nothing is stored
LocalFails ==
    /\ localQ # << >>
    /\ Head(localQ).op \in {"get", "set"}
    /\ LET x == Head(localQ) IN
        /\ localQ' = Tail(localQ)
        /\ reqs' = [reqs EXCEPT ![x.who] =
                        IF x.op = "get" THEN ReadFailed(@)
                        ELSE WriteFailed(@, x.part)]
    /\ UNCHANGED <<storeVars, page, match, popup, textCall, gc, now, orch, cache>>

\* fetchAndCache of a miss when `await fetchLyricsHandler(...)` rejects
\* (sanitize throws on a text that is not a string): handleLyricsRequest
\* rejects and the listener answers with the error
MissFailed(r) ==
    /\ reqs[r].pc = "fetching"
    /\ reqs' = [reqs EXCEPT ![r] = Rejected(@)]
    /\ UNCHANGED <<storeVars, page, match, popup, textCall, gc, now, orch, cache, localQ>>

\* the request the failures are exercised with
IOQueries == { Query(<<"S">>, <<"S">>, << >>, "ja", 200) }

\* the instants at which it is received: when an entry written at time 0 is
\* fresh, and when it is past the revalidation threshold
ReadInstants == {0, TtlRevalidate + MaxLate}

\* The cache as a request finds it: empty, or holding an entry written at
\* time 0.
InitCacheIO ==
    /\ \/ cache = EmptyCache
       \/ \E q \in IOQueries :
            cache = [k \in {getCacheKey(q.title, q.artist)} |->
                        CacheEntry(List(ParsedLines(DocA)), 0, q)]
    /\ now \in ReadInstants
    /\ localQ = << >>
    /\ reqs = [r \in Reqs |-> IdleReq]
    /\ orch = IdleOrch
    /\ session = EmptyStore
    /\ sessQ = << >>
    /\ procs = [p \in Procs |-> IdleProc]
    /\ tabUrl = [t \in Tabs |-> "ytm"]
    /\ page = IdlePage
    /\ match = IdleMatch
    /\ gc = IdleGc
    /\ popup = NoPopup
    /\ textCall = NoTextCall

\* the storage backend answers the oldest request, one way or the other
LocalAnswers == LocalServe \/ LocalFails

\* the fetchLyricsHandler call awaited by request r settles
MissSettles(r) ==
    \/ \E lyrics \in FetchResults : MissFetched(r, lyrics)
    \/ MissFailed(r)

\* steps of the background refresh of request r
RefreshSettles(r) ==
    \/ \E lyrics \in FetchResults : RefreshFetched(r, lyrics)
    \/ RefreshFailed(r)

NextCacheIO ==
    \/ \E r \in Reqs, q \in IOQueries : RecvFetchLyrics(r, q)
    \/ LocalAnswers
    \/ \E r \in Reqs : CacheLookedUp(r)
    \/ \E r \in Reqs : MissSettles(r)
    \/ \E r \in Reqs : MissWritten(r)
    \/ \E r \in Reqs : RefreshSettles(r)

SpecCacheIO == InitCacheIO /\ [][NextCacheIO]_vars

\* Every storage request is answered, every fetch settles (the browser ends
\* a fetch that gets no response), and every continuation that is ready to
\* run is run by the event loop.
FairCacheIO ==
    /\ WF_vars(LocalAnswers)
    /\ \A r \in Reqs : /\ WF_vars(CacheLookedUp(r))
                        /\ WF_vars(MissSettles(r))
                        /\ WF_vars(MissWritten(r))

SpecCacheLive == SpecCacheIO /\ FairCacheIO

(***************************************************************************)
(* Lyrics Cache with storage failures: properties.                         *)
(***************************************************************************)
\* the replies the fetchLyrics listener can send
IsReply(x) ==
    \/ x = ErrorReply
    \/ x.success /\ x.data \in FetchResults \cup {List(ParsedLines(DocA))}

\* request r has been answered, once
Answered(r) ==
    /\ reqs[r].pc = "done"
    /\ Len(reqs[r].resp) = 1
    /\ IsReply(reqs[r].resp[1])

\* C21: every fetchLyrics request received gets a reply, and never more
\* than one: { success: true, data } or { success: false, error }, whether
\* the cache has the entry or not, whether the storage calls are rejected
\* or not, and whatever fetchLyricsHandler gives.
C21_ExactlyOneReply ==
    /\ [](\A r \in Reqs :
            /\ Len(reqs[r].resp) <= 1
            /\ reqs[r].pc = "done" => Answered(r))
    /\ \A r \in Reqs : (reqs[r].pc # "idle") ~> Answered(r)

\* one request was answered with the error of a rejected fetchLyricsHandler
\* and another with lyrics after a rejected storage call
C21_Witness ==
    \E r1, r2 \in Reqs :
        /\ Answered(r1) /\ reqs[r1].resp[1] = ErrorReply
        /\ Answered(r2) /\ reqs[r2].resp[1].success
        /\ reqs[r2].ioError # "none"

\* request r was answered with what its fetchLyricsHandler call returned
AnsweredWithFetched(r) ==
    /\ reqs[r].fetches = 1
    /\ Truthy(reqs[r].lyrics)
    /\ reqs[r].resp = <<Reply(reqs[r].lyrics)>>

\* request r was answered with an error because its fetchLyricsHandler call
\* rejected
AnsweredFetchError(r) ==
    /\ reqs[r].fetches = 1
    /\ reqs[r].lyrics = Null
    /\ reqs[r].resp = <<ErrorReply>>

\* C22: a rejected cache read is handled as a miss: fetchLyricsHandler runs
\* and the request is answered with its result (with the error only when
\* fetchLyricsHandler itself rejects); a rejected cache write is dropped:
\* the request is answered with the fetched lyrics all the same.
C22_CacheFailuresNotFatal ==
    \A r \in Reqs :
        /\ (reqs[r].pc = "done" /\ reqs[r].ioError = "read")
                => (AnsweredWithFetched(r) \/ AnsweredFetchError(r))
        /\ (reqs[r].pc = "done" /\ reqs[r].ioError = "write")
                => (AnsweredWithFetched(r) /\ ShouldCache(reqs[r].lyrics))
        /\ reqs[r].ioError # "none" => reqs[r].pc # "idle"

\* one request was answered with fetched lyrics after its read was
\* rejected, another after its write was rejected
C22_Witness ==
    \E r1, r2 \in Reqs :
        /\ reqs[r1].pc = "done" /\ reqs[r1].ioError = "read"
        /\ AnsweredWithFetched(r1)
        /\ reqs[r2].pc = "done" /\ reqs[r2].ioError = "write"
        /\ AnsweredWithFetched(r2)

(***************************************************************************)
(* Source Orchestrator: parse failures, strategy D.                        *)
(***************************************************************************)
\* the lyrics text of the record is absent, or has no line with both a
\* time stamp and a text
NoValidLine(doc) == ParsedLines(doc) = << >>

\* task i is a lookup by name whose fetch found a record
FoundRecord(i) ==
    /\ orch.results[i] # Pending
    /\ orch.tasks[i] \in {"GET_WITH_ALBUM", "GET_NO_ALBUM"}
    /\ orch.fetched[i].net = "ok"
    /\ orch.fetched[i].status = 200
    /\ orch.fetched[i].json
    /\ orch.fetched[i].data # << >>

\* C23: a strategy whose record has no lyrics text, or a lyrics text
\* without any valid line, yields null, so that fetchLyricsHandler goes on
\* to the next strategy or to the sentinel and never returns a list of no
\* line.
C23_MalformedLyricsIsMiss ==
    /\ \A i \in 1..Len(orch.tasks) :
            (FoundRecord(i) /\ NoValidLine(orch.fetched[i].data[1].syncedLyrics))
                => orch.results[i].value = Null
    /\ orch.pc = "done" => orch.ret.lines # << >>

\* cleanText changes the title or the artist of the query
CleanupChanges(q) ==
    cleanText(q.title) # q.title \/ cleanText(q.artist) # q.artist

\* C24: the search on cleaned text is issued exactly when cleanText changes
\* the title or the artist; otherwise exactly three tasks are issued; and
\* when it is issued, the three other tasks yield null and it yields a
\* list, that list is what fetchLyricsHandler returns.
C24_CleanSearchIffCleanupChanges ==
    orch.pc # "idle" =>
        /\ SubSeq(orch.tasks, 1, 3) = <<"GET_WITH_ALBUM", "GET_NO_ALBUM", "SEARCH_RAW">>
        /\ IF CleanupChanges(orch.query)
           THEN Len(orch.tasks) = 4 /\ orch.tasks[4] = "SEARCH_CLEAN"
           ELSE Len(orch.tasks) = 3
        /\ ( /\ orch.pc = "done"
             /\ Len(orch.tasks) = 4
             /\ \A i \in 1..3 : orch.results[i].value = Null
             /\ Succeeded(4) )
                => orch.ret = orch.results[4].value

\* the cleanup changed the title, the three first tasks yielded null, the
\* search on cleaned text yielded several lines and they were returned
C24_Witness ==
    /\ orch.pc = "done"
    /\ cleanText(orch.query.title) # orch.query.title
    /\ Len(orch.tasks) = 4
    /\ \A i \in 1..3 : orch.results[i].value = Null
    /\ Succeeded(4)
    /\ Len(orch.ret.lines) > 1
    /\ orch.ret = orch.results[4].value

(***************************************************************************)
(* Match Scorer: calculateScore applied to a record and a query.           *)
(***************************************************************************)
\* artist names: two that normalize alike, one that holds them, one with
\* other letters, and two written in Cyrillic
QueryNames == { <<"S">>, <<"S", "M">>, <<"U+0436">> }
RecordNames == { <<"S">>, <<"s", " ">>, <<"S", "M">>, <<"V">>, <<"U+044F">> }

\* track names
QueryTracks == { <<"S">>, <<"S", "M">> }
RecordTracks == { <<"S">>, <<"S", "M">>, <<"V">> }

\* durations: none, and differences of 0, 2, 3, 5, 10 and 11 seconds
TargetDurations == {0, 200}
RecordDurations == {0, 189, 190, 195, 197, 198, 200, 211}

\* navigator.language
Langs == { << >>, <<"en">>, <<"ja">>, <<"ja", "JP">>, <<"ko">>, <<"zh">>, <<"ru">> }

\* lyrics texts: none, and one in each script
Samples ==
    { << >>, <<"o">>, <<"U+3042">>, <<"U+4E2D">>, <<"U+AC00">>, <<"U+0436">> }

Records ==
    { Record(t, a, d, l, i) :
        t \in RecordTracks, a \in RecordNames, d \in RecordDurations,
        l \in Samples, i \in BOOLEAN }

\* tryApiSearch has a record to score
InitScore ==
    /\ match \in [pc : {"called"}, item : Records, title : QueryTracks,
                  artist : QueryNames, lang : Langs,
                  duration : TargetDurations, score : {0}]
    /\ gc = IdleGc
    /\ popup = NoPopup
    /\ textCall = NoTextCall
    /\ page = IdlePage
    /\ orch = IdleOrch
    /\ cache = EmptyCache
    /\ localQ = << >>
    /\ reqs = [r \in Reqs |-> IdleReq]
    /\ session = EmptyStore
    /\ sessQ = << >>
    /\ procs = [p \in Procs |-> IdleProc]
    /\ tabUrl = [t \in Tabs |-> "ytm"]
    /\ now = 0

\* tryApiSearch: score: calculateScore(item, title, artist, shortLang,
\* duration)
Score ==
    /\ match.pc = "called"
    /\ match' = [match EXCEPT
            !.pc = "scored",
            !.score = calculateScore(match.item, match.title, match.artist,
                                     PrimarySubtag(match.lang), match.duration)]
    /\ UNCHANGED <<storeVars, page, now, lyricVars, gc, popup, textCall>>

NextScore == Score

SpecScore == InitScore /\ [][NextScore]_vars

(***************************************************************************)
(* Match Scorer: properties.                                               *)
(***************************************************************************)
\* the characters of a name, letter case aside
LettersOf(name) == { ToLower(name[i]) : i \in 1..Len(name) }

\* two names that have no character in common
NoOverlap(a, b) ==
    /\ a # << >>
    /\ b # << >>
    /\ LettersOf(a) \cap LettersOf(b) = {}

\* C25: when the artist name of the record and that of the query have no
\* text in common, the score is below the acceptance threshold, whatever
\* the titles, the durations, the language and the instrumental flag are.
C25_ArtistGateRejects ==
    (match.pc = "scored" /\ NoOverlap(match.item.artistName, match.artist))
        => match.score < ScoreThreshold

\* the record and the query both carry a positive duration and these differ
\* by more than ten seconds
DurationsFarApart ==
    /\ match.duration > 0
    /\ match.item.duration > 0
    /\ \/ match.item.duration - match.duration > 10
       \/ match.duration - match.item.duration > 10

\* C26: when the record and the query both carry a positive duration and
\* these differ by more than 10 seconds, the score of a record that passed
\* the artist gate is exactly -1000, also with equal artists and titles,
\* and neither the title, the script nor the instrumental flag changes it.
C26_DurationCutoff ==
    ( /\ match.pc = "scored"
      /\ checkArtistMatch(match.item.artistName, match.artist) # 0
      /\ DurationsFarApart )
        => match.score = -1000

\* artist and title are equal, the lyrics are in the script of the query's
\* language, the durations differ by 11 seconds, and the score is -1000
C26_Witness ==
    /\ match.pc = "scored"
    /\ match.item.artistName = match.artist
    /\ match.item.trackName = match.title
    /\ match.lang = <<"ko">>
    /\ match.item.syncedLyrics = <<"U+AC00">>
    /\ match.duration = 200
    /\ match.item.duration \in {189, 211}
    /\ match.score = -1000

\* C27: for a record that neither the artist gate nor the duration cutoff
\* rejects, the score is the sum of the artist term (100 for names equal
\* after normalize, 80 for one holding the other), the duration term (50 up
\* to 2 seconds of difference, 20 up to 5, -50 up to 10, 0 when a side has
\* no positive duration), the title term (40 for equal, 20 for one holding
\* the other, 0 otherwise), the script bonus (100, or nothing; nothing when
\* the language has no script pattern or the record no lyrics) and -100
\* for a record flagged instrumental.
C27_ScoreIsSumOfTerms ==
    LET a == normalize(match.item.artistName)
        b == normalize(match.artist)
        t == normalize(match.item.trackName)
        u == normalize(match.title)
        diff == IF match.item.duration > match.duration
                THEN match.item.duration - match.duration
                ELSE match.duration - match.item.duration
        passesGate == a = b \/ Includes(a, b) \/ Includes(b, a)
        artistTerm == IF a = b THEN 100 ELSE 80
        durationTerm ==
            IF ~(match.duration > 0 /\ match.item.duration > 0) THEN 0
            ELSE IF diff <= 2 THEN 50
            ELSE IF diff <= 5 THEN 20
            ELSE -50
        titleTerm ==
            IF t = u THEN 40
            ELSE IF Includes(t, u) \/ Includes(u, t) THEN 20
            ELSE 0
        penalty == IF match.item.instrumental THEN -100 ELSE 0
        bonuses ==
            IF PrimarySubtag(match.lang) \in {"ja", "ko", "zh", "ru"}
                    /\ match.item.syncedLyrics # << >>
            THEN {0, 100} ELSE {0}
    IN (match.pc = "scored" /\ passesGate /\ ~DurationsFarApart)
        => \E bonus \in bonuses :
            match.score = artistTerm + durationTerm + titleTerm + bonus + penalty

\* an instrumental record whose artist holds that of the query, whose title
\* is held by that of the query and whose duration is 10 seconds off, with
\* no script bonus: 80 - 50 + 20 - 100
C27_Witness ==
    /\ match.pc = "scored"
    /\ match.item.artistName = <<"S", "M">> /\ match.artist = <<"S">>
    /\ match.item.trackName = <<"S">> /\ match.title = <<"S", "M">>
    /\ match.item.duration = 190 /\ match.duration = 200
    /\ match.item.instrumental
    /\ match.lang = <<"en">>
    /\ match.score = -50

\* C28: for a record that neither the artist gate nor the duration cutoff
\* rejects, 100 is added for the script exactly when the primary subtag of
\* the language is ja, ko, zh or ru and the lyrics of the record hold a
\* character of the script of that language (kana or an ideograph for ja,
\* Hangul syllables for ko, ideographs for zh, Cyrillic for ru); lyrics in
\* another script only, such as Latin lyrics for ja, get nothing.
C28_ScriptBonusIffScript ==
    LET a == normalize(match.item.artistName)
        b == normalize(match.artist)
        t == normalize(match.item.trackName)
        u == normalize(match.title)
        diff == IF match.item.duration > match.duration
                THEN match.item.duration - match.duration
                ELSE match.duration - match.item.duration
        passesGate == a = b \/ Includes(a, b) \/ Includes(b, a)
        others ==
            (IF a = b THEN 100 ELSE 80)
            + (IF ~(match.duration > 0 /\ match.item.duration > 0) THEN 0
               ELSE IF diff <= 2 THEN 50
               ELSE IF diff <= 5 THEN 20
               ELSE -50)
            + (IF t = u THEN 40
               ELSE IF Includes(t, u) \/ Includes(u, t) THEN 20
               ELSE 0)
            + (IF match.item.instrumental THEN -100 ELSE 0)
        primary == IF match.lang = << >> THEN "" ELSE match.lang[1]
        OfScript(n) ==
            CASE primary = "ja" -> n \in 12352..12543 \/ n \in 19968..40959
              [] primary = "ko" -> n \in 44032..55215
              [] primary = "zh" -> n \in 19968..40959
              [] primary = "ru" -> n \in 1024..1279
              [] OTHER -> FALSE
        inScript ==
            \E i \in 1..Len(match.item.syncedLyrics) :
                OfScript(CodePoint(match.item.syncedLyrics[i]))
    IN (match.pc = "scored" /\ passesGate /\ ~DurationsFarApart)
        => match.score = others + (IF inScript THEN 100 ELSE 0)

(***************************************************************************)
(* Source Orchestrator: the choice of a search strategy.                   *)
(***************************************************************************)
\* C29: a search strategy whose request was answered yields lyrics exactly
\* when some record of the answer that carries synced lyrics scores above
\* 70, and the lyrics are then those of a record whose score is the highest
\* among the records carrying synced lyrics; the lyrics of a record scoring
\* 70 or less, or of one without synced lyrics, are never what it yields.
C29_SearchReturnsBestAboveThreshold ==
    \A i \in 1..Len(orch.tasks) :
        LET res == orch.fetched[i]
            answered == res.net = "ok" /\ res.status = 200 /\ res.json
            synced == { k \in 1..Len(res.data) : res.data[k].syncedLyrics # << >> }
            highest == { k \in synced :
                            \A j \in synced : res.data[j].score <= res.data[k].score }
        IN (/\ orch.tasks[i] \in {"SEARCH_RAW", "SEARCH_CLEAN"}
            /\ orch.results[i] # Pending
            /\ answered)
            => /\ orch.results[i].value # Null
                    <=> \E k \in synced : res.data[k].score > 70
               /\ orch.results[i].value # Null
                    => \E k \in highest :
                        /\ res.data[k].score > 70
                        /\ orch.results[i].value
                                = List(ParsedLines(res.data[k].syncedLyrics))

\* a search was answered with a record scoring 71 followed by one scoring
\* 190, and yielded the lyrics of the second
C29_Witness ==
    \E i \in 1..Len(orch.tasks) :
        /\ orch.tasks[i] \in {"SEARCH_RAW", "SEARCH_CLEAN"}
        /\ orch.results[i] # Pending
        /\ orch.fetched[i] = Response("ok", 200, TRUE, <<Item(DocA, 71), Item(DocB, 190)>>)
        /\ orch.results[i].value = List(ParsedLines(DocB))

(***************************************************************************)
(* Lyrics Cache: garbageCollectCache, called by the onStartup listener.    *)
(***************************************************************************)
\* CONFIG.ttlExpire, 365 * 24 * 60 * 60 * 1000 ms
TtlExpire == 365

\* key.startsWith(CONFIG.storageKeyPrefix)
HasPrefix(key) == key # << >> /\ Head(key) = "lyric_"

\* value.lastAccessed || value.createdAt || now: a field that is absent and
\* one that is 0 are both falsy
LastTime(value, t) ==
    IF value.lastAccessed # 0 THEN value.lastAccessed
    ELSE IF value.createdAt # 0 THEN value.createdAt
    ELSE t

\* the loop over Object.entries(allData): the keys pushed to keysToRemove
KeysToRemove(allData, t) ==
    { key \in DOMAIN allData :
        HasPrefix(key) /\ t - LastTime(allData[key], t) > TtlExpire }

\* the storage backend serves the oldest request, one of
\* garbageCollectCache: get(null) hands it a copy of everything stored,
\* remove deletes the keys it names (nothing follows the awaited remove)
LocalServeGc ==
    /\ localQ # << >>
    /\ Head(localQ).op \in {"getAll", "remove"}
    /\ localQ' = Tail(localQ)
    /\ IF Head(localQ).op = "getAll"
       THEN /\ gc' = [gc EXCEPT !.allData = cache, !.pc = "got"]
            /\ UNCHANGED cache
       ELSE /\ cache' = [k \in DOMAIN cache \ Head(localQ).keys |-> cache[k]]
            /\ gc' = [gc EXCEPT !.pc = "done"]
    /\ UNCHANGED <<storeVars, page, match, popup, textCall, now, orch, reqs>>

\* the storage backend rejects the oldest request, one of
\* garbageCollectCache: the catch block logs "GC failed"
LocalFailsGc ==
    /\ localQ # << >>
    /\ Head(localQ).op \in {"getAll", "remove"}
    /\ localQ' = Tail(localQ)
    /\ gc' = [gc EXCEPT !.pc = "failed"]
    /\ UNCHANGED <<storeVars, page, match, popup, textCall, now, orch, cache, reqs>>

\* garbageCollectCache after `await chrome.storage.local.get(null)`: now is
\* read, the keys to remove are collected, and if there are any
\* chrome.storage.local.remove is issued and awaited
GcCollect ==
    /\ gc.pc = "got"
    /\ LET keysToRemove == KeysToRemove(gc.allData, now) IN
        /\ gc' = [gc EXCEPT !.now = now, !.keysToRemove = keysToRemove,
                            !.pc = IF keysToRemove # {} THEN "remove" ELSE "done"]
        /\ localQ' = IF keysToRemove # {}
                     THEN Append(localQ, LocalRemove(keysToRemove))
                     ELSE localQ
    /\ UNCHANGED <<storeVars, page, match, popup, textCall, now, orch, cache, reqs>>

\* the day of the browser start the sweep is exercised on
SweepDay == 2 * TtlExpire

\* a cache entry created at one time and last accessed at another (0: the
\* entry has no lastAccessed)
AgedEntry(q, createdAt, lastAccessed) ==
    [CacheEntry(List(ParsedLines(DocA)), createdAt, q)
        EXCEPT !.lastAccessed = lastAccessed]

\* the song no request of the run asks for
OtherQuery == Query(<<"V">>, <<"V">>, << >>, "ja", 200)

\* what the entry of the requested song may be at the browser start:
\* created long ago and never accessed, last accessed one day more than
\* the threshold ago, exactly the threshold ago, or on the day itself
RequestedEntries ==
    { AgedEntry(q, 1, a) :
        q \in IOQueries,
        a \in {0, SweepDay - TtlExpire - 1, SweepDay - TtlExpire, SweepDay} }

\* what fetchLyricsHandler returns to the requests of the run
SweepFetchResults == { Sentinel, List(ParsedLines(DocB)) }

\* chrome.storage.local at the browser start: the popup's isEnabled flag,
\* the entry of the requested song or none, and an expired entry of another
\* song or none
InitSweep ==
    /\ \E q \in IOQueries :
       \E mine \in {<< >>} \cup { <<e>> : e \in RequestedEntries } :
       \E other \in {<< >>, <<AgedEntry(OtherQuery, 1, 1)>>} :
            cache = [k \in {<<"isEnabled">>}
                            \cup (IF mine = << >> THEN {}
                                  ELSE {getCacheKey(q.title, q.artist)})
                            \cup (IF other = << >> THEN {}
                                  ELSE {getCacheKey(OtherQuery.title, OtherQuery.artist)})
                        |-> IF k = <<"isEnabled">> THEN TRUE
                            ELSE IF k = getCacheKey(q.title, q.artist) /\ mine # << >>
                                 THEN mine[1]
                                 ELSE other[1]]
    /\ now = SweepDay
    /\ gc = IdleGc
    /\ popup = NoPopup
    /\ textCall = NoTextCall
    /\ localQ = << >>
    /\ reqs = [r \in Reqs |-> IdleReq]
    /\ orch = IdleOrch
    /\ session = EmptyStore
    /\ sessQ = << >>
    /\ procs = [p \in Procs |-> IdleProc]
    /\ tabUrl = [t \in Tabs |-> "ytm"]
    /\ page = IdlePage
    /\ match = IdleMatch

\* The browser starts; the restored tabs send their fetchLyrics requests
\* before or after the onStartup listener runs.
NextSweep ==
    \/ \E p \in Procs : Startup(p)
    \/ SessServe
    \/ LocalServeGc
    \/ LocalFailsGc
    \/ GcCollect
    \/ \E r \in Reqs, q \in IOQueries : RecvFetchLyrics(r, q)
    \/ LocalServe
    \/ \E r \in Reqs : CacheLookedUp(r)
    \/ \E r \in Reqs, lyrics \in SweepFetchResults : MissFetched(r, lyrics)
    \/ \E r \in Reqs : MissWritten(r)
    \/ \E r \in Reqs, lyrics \in SweepFetchResults : RefreshFetched(r, lyrics)
    \/ \E r \in Reqs : RefreshFailed(r)

SpecSweep == InitSweep /\ [][NextSweep]_vars

\* C30: when the remove of the sweep takes effect, exactly the entries under
\* a key with the cache prefix whose lastAccessed, or createdAt when they
\* have no lastAccessed, is more than 365 days old are removed, and every
\* other entry and every key without the prefix is left as it was; a sweep
\* that ends without removing anything leaves no such entry behind.
C30_SweepRemovesExactlyExpired ==
    [][LET Expired(value) ==
            now - (IF value.lastAccessed # 0 THEN value.lastAccessed
                   ELSE value.createdAt) > 365
           ToGo == { k \in DOMAIN cache :
                        k[1] = "lyric_" /\ Expired(cache[k]) }
       IN /\ (gc.pc = "remove" /\ gc'.pc = "done")
                => cache' = [k \in DOMAIN cache \ ToGo |-> cache[k]]
          /\ (gc.pc = "got" /\ gc'.pc = "done")
                => ToGo = {} /\ cache' = cache
      ]_vars

(***************************************************************************)
(* Lyrics Cache: the touch of a hit, the refresh of a stale entry.         *)
(***************************************************************************)
\* C31: a hit, whatever the age of the entry, sets lastAccessed of the
\* stored entry to the time of the read and changes nothing else: when the
\* write of the touch takes effect, the key still holds an entry, and the
\* entry after the step is the entry before it with lastAccessed replaced;
\* lyrics, createdAt, updatedAt and meta are as before, and no other key
\* changes.
C31_HitTouchesLastAccessedOnly ==
    [][(/\ localQ # << >>
        /\ Head(localQ).op = "set"
        /\ Head(localQ).part = "touch"
        /\ localQ' = Tail(localQ))
        => LET key == Head(localQ).key
               read == reqs[Head(localQ).who].now
           IN /\ key \in DOMAIN cache
              /\ DOMAIN cache' = DOMAIN cache
              /\ \A k \in DOMAIN cache :
                    /\ cache'[k].lyrics = cache[k].lyrics
                    /\ cache'[k].createdAt = cache[k].createdAt
                    /\ cache'[k].updatedAt = cache[k].updatedAt
                    /\ cache'[k].meta = cache[k].meta
                    /\ cache'[k].lastAccessed
                            = IF k = key THEN read ELSE cache[k].lastAccessed
      ]_vars

(***************************************************************************)
(* Popup: the list of players and the index of the one shown.              *)
(***************************************************************************)
\* Object.values(store): the keys of the store are tab ids, which are
\* enumerated in ascending order
RECURSIVE Values(_)
Values(store) ==
    IF DOMAIN store = {} THEN << >>
    ELSE LET t == CHOOSE t \in DOMAIN store : \A u \in DOMAIN store : t <= u
         IN <<store[t]>> \o Values(StoreDel(store, t))

\* the comparator of the initial sort gives a negative number for (a, b)
SortsBefore(a, b) ==
    IF a.status = "playing" /\ b.status # "playing" THEN TRUE
    ELSE IF a.status # "playing" /\ b.status = "playing" THEN FALSE
    ELSE b.lastUpdated - a.lastUpdated < 0

\* newPlayers.sort(...): the sort is stable, so the first is the earliest
\* element that no other sorts before
RECURSIVE Sorted(_)
Sorted(list) ==
    IF list = << >> THEN << >>
    ELSE LET IsFirst(i) == \A j \in 1..Len(list) : ~SortsBefore(list[j], list[i])
             i == CHOOSE i \in 1..Len(list) :
                    IsFirst(i) /\ \A j \in 1..(i - 1) : ~IsFirst(j)
         IN <<list[i]>>
            \o Sorted(SubSeq(list, 1, i - 1) \o SubSeq(list, i + 1, Len(list)))

\* an updatePlayersList that replaces the list and leaves the index as it
\* is; the code does not behave like this
updatePlayersListUnclamped(state, store) ==
    [state EXCEPT !.players =
        IF ~state.isInitialized THEN Sorted(Values(store)) ELSE Values(store)]

\* updatePlayersList(store), for a store that is not undefined: the list is
\* replaced (sorted on the first load only) and the index clamped
updatePlayersList(state, store) ==
    LET newPlayers ==
            IF ~state.isInitialized THEN Sorted(Values(store)) ELSE Values(store)
    IN [state EXCEPT
            !.players = newPlayers,
            !.currentIndex =
                IF Len(newPlayers) = 0 THEN 0
                ELSE IF state.currentIndex >= Len(newPlayers)
                     THEN Len(newPlayers) - 1
                     ELSE state.currentIndex]

(***************************************************************************)
(* Player State Store: delivery of the storeUpdated notifications.         *)
(***************************************************************************)
\* a sendMessage without its `.catch(() => {})`: the rejection is left
\* unhandled; the code does not behave like this
UndeliverableUncaught(proc) == [proc EXCEPT !.delivery = "unhandled"]

\* chrome.runtime.sendMessage(...).catch(() => {}): the promise rejects
\* because nothing receives the message, and the handler ignores it
Undeliverable(proc) == [proc EXCEPT !.delivery = "swallowed"]

\* invocation p has sent a storeUpdated whose promise has not settled
InFlight(p) == procs[p].sent # << >> /\ procs[p].delivery = "none"

\* the popup is open: its onMessage listener runs updatePlayersList with
\* the store of the message, and the promise of sendMessage is fulfilled
Delivered(p) ==
    /\ InFlight(p)
    /\ popup.open
    /\ popup' = updatePlayersList(popup, procs[p].sent[1])
    /\ procs' = [procs EXCEPT ![p].delivery = "received"]
    /\ UNCHANGED <<session, sessQ, tabUrl, now, lyricVars, page, match, gc, textCall>>

\* no popup is open: the promise of sendMessage rejects
Undelivered(p) ==
    /\ InFlight(p)
    /\ ~popup.open
    /\ procs' = [procs EXCEPT ![p] = Undeliverable(@)]
    /\ UNCHANGED <<session, sessQ, tabUrl, now, lyricVars, page, match, gc, popup, textCall>>

\* the popup is closed: its page and its listener are gone
PopupCloses ==
    /\ popup.open
    /\ popup' = NoPopup
    /\ UNCHANGED <<storeVars, now, lyricVars, page, match, gc, textCall>>

\* The store as an earlier run left it, the popup open or not.
InitObserver ==
    /\ popup \in {NoPopup, LoadedPopup}
    /\ textCall = NoTextCall
    /\ orch = IdleOrch
    /\ cache = EmptyCache
    /\ localQ = << >>
    /\ reqs = [r \in Reqs |-> IdleReq]
    /\ \/ /\ session = EmptyStore
          /\ tabUrl = [t \in Tabs |-> "ytm"]
       \/ /\ session = [t \in {1} |-> EarlierEntry]
          /\ tabUrl = [t \in Tabs |-> "ytm"]
    /\ sessQ = << >>
    /\ procs = [p \in Procs |-> IdleProc]
    /\ now = 0
    /\ page = IdlePage
    /\ match = IdleMatch
    /\ gc = IdleGc

\* upserts and removes, and what becomes of their notifications
NextObserver ==
    \/ \E p \in Procs, t \in Tabs, d \in PlayerData : RecvUpdateState(p, t, d)
    \/ \E p \in Procs, t \in Tabs : TabRemoved(p, t)
    \/ SessServe
    \/ \E p \in Procs : UpdateModify(p)
    \/ \E p \in Procs : UpdateNotify(p)
    \/ \E p \in Procs : RemoveModify(p)
    \/ \E p \in Procs : RemoveNotify(p)
    \/ \E p \in Procs : Delivered(p)
    \/ \E p \in Procs : Undelivered(p)
    \/ PopupCloses

SpecObserver == InitObserver /\ [][NextObserver]_vars

\* C32: a storeUpdated that cannot be delivered is swallowed.  No rejection
\* is left unhandled; the notification is sent only after the write of the
\* upsert or remove has taken effect in the store; the step in which the
\* delivery fails changes neither the store nor anything of the handler
\* but the settled promise; and when no other handler ran, the store after
\* the failure is the map the handler wrote, with the upserted entry in it
\* or the removed entry out of it.
C32_DeliveryFailureSwallowed ==
    /\ [](\A p \in Procs :
            /\ procs[p].delivery # "unhandled"
            /\ (/\ procs[p].delivery = "swallowed"
                /\ \A q \in Procs \ {p} : procs[q].pc = "idle")
                => /\ procs[p].pc = "done"
                   /\ session = procs[p].local
                   /\ procs[p].kind = "update" => procs[p].tab \in DOMAIN session
                   /\ procs[p].kind = "remove" => procs[p].tab \notin DOMAIN session)
    /\ [][\A p \in Procs :
            /\ Len(procs'[p].sent) > Len(procs[p].sent)
                => /\ procs[p].pc \in {"u_setdone", "r_setdone"}
                   /\ procs'[p].sent = <<procs[p].local>>
            /\ (procs[p].pc \in {"u_set", "r_set"} /\ procs'[p].pc \in {"u_setdone", "r_setdone"})
                => session' = procs[p].local
            /\ (procs[p].delivery = "none" /\ procs'[p].delivery \notin {"none", "received"})
                => /\ procs'[p] = [procs[p] EXCEPT !.delivery = "swallowed"]
                   /\ procs[p].pc = "done"
                   /\ session' = session
                   /\ sessQ' = sessQ]_vars

\* an upsert and a remove whose notifications both found no popup: the
\* entry of the upsert is stored
C32_Witness ==
    \E p, q \in Procs :
        /\ procs[p].kind = "update" /\ procs[p].delivery = "swallowed"
        /\ procs[q].kind = "remove" /\ procs[q].delivery = "swallowed"
        /\ procs[p].tab \in DOMAIN session
        /\ procs[q].tab \notin DOMAIN session

(***************************************************************************)
(* LRC Parser: parseLRC on the characters of its argument.  Times are in   *)
(* milliseconds, so that the sum min * 60 + sec + ms is an integer.        *)
(***************************************************************************)
\* \d
IsDigit(c) == c \in {"0", "1", "2", "5", "9"}

\* the value of a decimal digit, as far as the model's strings have them
DigitValue(c) ==
    CASE c = "0" -> 0 [] c = "1" -> 1 [] c = "2" -> 2 [] c = "5" -> 5 [] c = "9" -> 9

\* parseInt(match[1], 10), parseInt(match[2], 10): two digits
parseInt(digits) == 10 * DigitValue(digits[1]) + DigitValue(digits[2])

\* a fraction field read as a count of milliseconds; the code does not
\* behave like this
MillisecondsDirectly(digits) ==
    IF Len(digits) = 2
    THEN 10 * DigitValue(digits[1]) + DigitValue(digits[2])
    ELSE 100 * DigitValue(digits[1]) + 10 * DigitValue(digits[2])
            + DigitValue(digits[3])

\* parseFloat("0." + match[3]), in milliseconds: two digits are hundredths
\* of a second, three digits are thousandths
parseFloatFraction(digits) ==
    IF Len(digits) = 2
    THEN 100 * DigitValue(digits[1]) + 10 * DigitValue(digits[2])
    ELSE 100 * DigitValue(digits[1]) + 10 * DigitValue(digits[2])
            + DigitValue(digits[3])

\* the length of the match of timeRegex, /\[(\d{2}):(\d{2})\.(\d{2,3})\]/,
\* that begins at position i of the line; 0 when there is none
MatchLength(line, i) ==
    IF /\ i + 9 <= Len(line)
       /\ line[i] = "["
       /\ IsDigit(line[i + 1]) /\ IsDigit(line[i + 2])
       /\ line[i + 3] = ":"
       /\ IsDigit(line[i + 4]) /\ IsDigit(line[i + 5])
       /\ line[i + 6] = "."
       /\ IsDigit(line[i + 7]) /\ IsDigit(line[i + 8])
    THEN IF i + 10 <= Len(line) /\ IsDigit(line[i + 9]) /\ line[i + 10] = "]"
         THEN 11
         ELSE IF line[i + 9] = "]" THEN 10 ELSE 0
    ELSE 0

\* line.match(timeRegex): the position of the leftmost match, 0 for null
MatchIndex(line) ==
    IF \E i \in 1..Len(line) : MatchLength(line, i) > 0
    THEN CHOOSE i \in 1..Len(line) :
            /\ MatchLength(line, i) > 0
            /\ \A j \in 1..(i - 1) : MatchLength(line, j) = 0
    ELSE 0

\* lrcString.split('\n')
RECURSIVE Split(_)
Split(lrcString) ==
    IF \E i \in 1..Len(lrcString) : lrcString[i] = "\n"
    THEN LET i == CHOOSE i \in 1..Len(lrcString) :
                    /\ lrcString[i] = "\n"
                    /\ \A j \in 1..(i - 1) : lrcString[j] # "\n"
         IN <<SubSeq(lrcString, 1, i - 1)>>
            \o Split(SubSeq(lrcString, i + 1, Len(lrcString)))
    ELSE <<lrcString>>

\* a loop body without the test `if (text)`; the code does not behave like
\* this
ParsedLineAnyText(line) ==
    LET i == MatchIndex(line) IN
    IF i = 0 THEN << >>
    ELSE LET n == MatchLength(line, i)
             rest == Trim(SubSeq(line, 1, i - 1) \o SubSeq(line, i + n, Len(line)))
         IN <<[time |-> (parseInt(SubSeq(line, i + 1, i + 2)) * 60
                            + parseInt(SubSeq(line, i + 4, i + 5))) * 1000
                        + parseFloatFraction(SubSeq(line, i + 7, i + n - 2)),
               text |-> rest]>>

\* the body of the loop of parseLRC for one line: what it pushes to result
ParsedLine(line) ==
    LET i == MatchIndex(line) IN
    IF i = 0 THEN << >>
    ELSE LET n == MatchLength(line, i)
             rest == Trim(SubSeq(line, 1, i - 1) \o SubSeq(line, i + n, Len(line)))
             min == parseInt(SubSeq(line, i + 1, i + 2))
             sec == parseInt(SubSeq(line, i + 4, i + 5))
             ms == parseFloatFraction(SubSeq(line, i + 7, i + n - 2))
         IN IF rest # << >>
            THEN <<[time |-> (min * 60 + sec) * 1000 + ms, text |-> rest]>>
            ELSE << >>

\* the loop of parseLRC over the lines
RECURSIVE ParsedText(_)
ParsedText(lines) ==
    IF lines = << >> THEN << >>
    ELSE ParsedLine(Head(lines)) \o ParsedText(Tail(lines))

\* parseLRC(lrcString), lrcString a string of characters (empty when it is
\* undefined, null or "")
parseLRCText(lrcString) ==
    IF lrcString = << >> THEN Null ELSE List(ParsedText(Split(lrcString)))

(***************************************************************************)
(* LRC Parser: parseLRC applied to texts made of lines.                    *)
(***************************************************************************)
\* the most lines of a text
MaxLines == 2

\* [MM:SS.ff] and [MM:SS.fff]
Stamp(mm, ss, ff) == <<"[">> \o mm \o <<":">> \o ss \o <<".">> \o ff \o <<"]">>

\* the time stamps the texts are written with: 1.50 s, 1.500 s, 1 min 5.05 s
\* and 10 min 59.005 s
ValidStamps ==
    { Stamp(<<"0", "0">>, <<"0", "1">>, <<"5", "0">>),
      Stamp(<<"0", "0">>, <<"0", "1">>, <<"5", "0", "0">>),
      Stamp(<<"0", "1">>, <<"0", "5">>, <<"0", "5">>),
      Stamp(<<"1", "0">>, <<"5", "9">>, <<"0", "0", "5">>) }

\* what timeRegex does not match: nothing, a fraction of one digit, minutes
\* of one digit, a fraction of four digits
InvalidStamps ==
    { << >>,
      Stamp(<<"0", "0">>, <<"0", "1">>, <<"5">>),
      Stamp(<<"0">>, <<"0", "1">>, <<"5", "0">>),
      Stamp(<<"0", "0">>, <<"0", "1">>, <<"5", "0", "0", "0">>) }

\* what precedes and what follows the stamp on its line
Befores == { << >>, <<" ">> }
Afters ==
    { << >>, <<" ">>, <<" ", "a", " ">>,
      Stamp(<<"0", "0">>, <<"0", "2">>, <<"0", "0">>) }

\* the lines of the texts, kept in their parts
TextLines ==
    [before : Befores, stamp : ValidStamps \cup InvalidStamps, after : Afters]

\* the characters of a line
LineText(l) == l.before \o l.stamp \o l.after

\* lines.join('\n')
RECURSIVE Join(_)
Join(lines) ==
    IF lines = << >> THEN << >>
    ELSE IF Len(lines) = 1 THEN LineText(lines[1])
    ELSE LineText(lines[1]) \o <<"\n">> \o Join(Tail(lines))

\* a lyrics text of up to MaxLines lines, or none
InitParse ==
    /\ \E n \in 0..MaxLines : \E lines \in [1..n -> TextLines] :
            textCall = [pc |-> "called", lines |-> lines, arg |-> Join(lines),
                        result |-> << >>]
    /\ popup = NoPopup
    /\ match = IdleMatch
    /\ gc = IdleGc
    /\ page = IdlePage
    /\ orch = IdleOrch
    /\ cache = EmptyCache
    /\ localQ = << >>
    /\ reqs = [r \in Reqs |-> IdleReq]
    /\ session = EmptyStore
    /\ sessQ = << >>
    /\ procs = [p \in Procs |-> IdleProc]
    /\ tabUrl = [t \in Tabs |-> "ytm"]
    /\ now = 0

\* parseLRC(item.syncedLyrics)
Parse ==
    /\ textCall.pc = "called"
    /\ textCall' = [textCall EXCEPT !.pc = "parsed",
                                    !.result = parseLRCText(textCall.arg)]
    /\ UNCHANGED <<storeVars, now, lyricVars, page, match, gc, popup>>

NextParse == Parse

SpecParse == InitParse /\ [][NextParse]_vars

(***************************************************************************)
(* LRC Parser: properties.                                                 *)
(***************************************************************************)
\* C33: for every line that begins, after white space at most, with a valid
\* stamp [MM:SS.ff] or [MM:SS.fff] and has text left, the parser yields, at
\* the place of the line among the lines it yields, the time
\* MM * 60 + SS plus the fraction field read as a decimal fraction of a
\* second (.50 and .500 are 500 ms, .05 is 50 ms, .005 is 5 ms), and the
\* text of the line without the stamp and without the white space around
\* it.
C33_TimeIsMinutesSecondsFraction ==
    LET Second == Stamp(<<"0", "0">>, <<"0", "2">>, <<"0", "0">>)
        Milliseconds(stamp) ==
            CASE stamp = Stamp(<<"0", "0">>, <<"0", "1">>, <<"5", "0">>) -> 1500
              [] stamp = Stamp(<<"0", "0">>, <<"0", "1">>, <<"5", "0", "0">>) -> 1500
              [] stamp = Stamp(<<"0", "1">>, <<"0", "5">>, <<"0", "5">>) -> 65050
              [] stamp = Stamp(<<"1", "0">>, <<"5", "9">>, <<"0", "0", "5">>) -> 659005
        NonBlank(s) == \E i \in 1..Len(s) : s[i] # " "
        Remaining(l) ==
            IF l.stamp \in ValidStamps THEN l.before \o l.after
            ELSE l.before \o l.stamp
        Yielded(l) ==
            /\ l.stamp \in ValidStamps \/ l.after = Second
            /\ NonBlank(Remaining(l))
        Place(k) == Cardinality({ j \in 1..k : Yielded(textCall.lines[j]) })
        IsStripOf(t, s) ==
            /\ t # << >> /\ t[1] # " " /\ t[Len(t)] # " "
            /\ \E i \in 0..(Len(s) - Len(t)) :
                /\ SubSeq(s, i + 1, i + Len(t)) = t
                /\ \A j \in 1..i : s[j] = " "
                /\ \A j \in (i + Len(t) + 1)..Len(s) : s[j] = " "
    IN textCall.pc = "parsed" =>
        \A k \in 1..Len(textCall.lines) :
            LET l == textCall.lines[k] IN
            (l.stamp \in ValidStamps /\ NonBlank(l.after))
                => /\ Place(k) <= Len(textCall.result.lines)
                   /\ textCall.result.lines[Place(k)].time = Milliseconds(l.stamp)
                   /\ IsStripOf(textCall.result.lines[Place(k)].text,
                                l.before \o l.after)

\* "[00:01.50] a " and " [10:59.005] a " were parsed to 1500 ms and
\* 659005 ms, both with the text "a"
C33_Witness ==
    /\ textCall.pc = "parsed"
    /\ textCall.lines =
        << [before |-> << >>,
            stamp |-> Stamp(<<"0", "0">>, <<"0", "1">>, <<"5", "0">>),
            after |-> <<" ", "a", " ">>],
           [before |-> <<" ">>,
            stamp |-> Stamp(<<"1", "0">>, <<"5", "9">>, <<"0", "0", "5">>),
            after |-> <<" ", "a", " ">>] >>
    /\ textCall.result = List(<< [time |-> 1500, text |-> <<"a">>],
                                 [time |-> 659005, text |-> <<"a">>] >>)

\* C34: the parser returns null for an empty or absent text; for any other
\* text it returns one line for each line of the text that has a stamp and
\* text left once the stamp and the white space are taken away, in the
\* order of the text, so that no line it returns has an empty text and no
\* line without a stamp or with a stamp only is returned.
C34_OneLinePerStampedLineWithText ==
    LET Second == Stamp(<<"0", "0">>, <<"0", "2">>, <<"0", "0">>)
        NonBlank(s) == \E i \in 1..Len(s) : s[i] # " "
        HasStamp(l) == l.stamp \in ValidStamps \/ l.after = Second
        Remaining(l) ==
            IF l.stamp \in ValidStamps THEN l.before \o l.after
            ELSE l.before \o l.stamp
        Kept == { k \in 1..Len(textCall.lines) :
                    HasStamp(textCall.lines[k]) /\ NonBlank(Remaining(textCall.lines[k])) }
        Within(t, s) ==
            \E i \in 0..(Len(s) - Len(t)) : SubSeq(s, i + 1, i + Len(t)) = t
        out == textCall.result.lines
    IN textCall.pc = "parsed" =>
        IF textCall.arg = << >> THEN textCall.result = Null
        ELSE /\ ~textCall.result.isNull
             /\ Len(out) = Cardinality(Kept)
             /\ \A j \in 1..Len(out) : out[j].text # << >>
             /\ \E place \in [1..Len(out) -> Kept] :
                    /\ \A i, j \in 1..Len(out) : i < j => place[i] < place[j]
                    /\ \A j \in 1..Len(out) :
                            Within(out[j].text, Remaining(textCall.lines[place[j]]))

\* a text of two lines, the first a stamp with white space only, the second
\* a stamp with text: one line is returned, that of the second
C34_Witness ==
    /\ textCall.pc = "parsed"
    /\ Len(textCall.lines) = 2
    /\ textCall.lines[1] =
            [before |-> << >>,
             stamp |-> Stamp(<<"0", "0">>, <<"0", "1">>, <<"5", "0">>),
             after |-> <<" ">>]
    /\ textCall.lines[2].stamp = Stamp(<<"0", "1">>, <<"0", "5">>, <<"0", "5">>)
    /\ textCall.lines[2].after = <<" ", "a", " ">>
    /\ textCall.result = List(<<[time |-> 65050, text |-> <<"a">>]>>)

(***************************************************************************)
(* Lyrics Cache: normalize and getCacheKey applied to two songs.           *)
(***************************************************************************)
\* the most characters of a title
MaxChars == 2

\* the characters titles are written with: Latin letters in both cases,
\* white space, a kana and a Cyrillic letter
TitleChars == {"S", "s", "M", " ", "U+3042", "U+0436"}

\* the titles of up to MaxChars characters
Titles == UNION { [1..n -> TitleChars] : n \in 0..MaxChars }

\* the artists of the two songs
Artists == { <<"S">>, <<"s", " ">> }

\* two songs, each a title and an artist
InitKey ==
    /\ \E t1 \in Titles, a1 \in Artists, t2 \in Titles, a2 \in Artists :
            textCall = [pc |-> "called", lines |-> << >>,
                        arg |-> <<[title |-> t1, artist |-> a1],
                                  [title |-> t2, artist |-> a2]>>,
                        result |-> << >>]
    /\ popup = NoPopup
    /\ match = IdleMatch
    /\ gc = IdleGc
    /\ page = IdlePage
    /\ orch = IdleOrch
    /\ cache = EmptyCache
    /\ localQ = << >>
    /\ reqs = [r \in Reqs |-> IdleReq]
    /\ session = EmptyStore
    /\ sessQ = << >>
    /\ procs = [p \in Procs |-> IdleProc]
    /\ tabUrl = [t \in Tabs |-> "ytm"]
    /\ now = 0

\* normalize(title) and normalize of its result, for the first song, and
\* getCacheKey(title, artist) for both
MakeKeys ==
    /\ textCall.pc = "called"
    /\ textCall' = [textCall EXCEPT
            !.pc = "keyed",
            !.result =
                [once |-> normalize(textCall.arg[1].title),
                 twice |-> normalize(normalize(textCall.arg[1].title)),
                 keys |-> <<getCacheKey(textCall.arg[1].title, textCall.arg[1].artist),
                            getCacheKey(textCall.arg[2].title, textCall.arg[2].artist)>>]]
    /\ UNCHANGED <<storeVars, now, lyricVars, page, match, gc, popup>>

NextKey == MakeKeys

SpecKey == InitKey /\ [][NextKey]_vars

\* C35: normalize applied to its own result gives that result again, and
\* two songs whose titles, and whose artists, differ only in the case of
\* letters and in white space get the same cache key.
C35_KeyIdempotentCaseSpaceInsensitive ==
    LET RECURSIVE Squeezed(_)
        Squeezed(s) ==
            IF s = << >> THEN << >>
            ELSE IF Head(s) = " " THEN Squeezed(Tail(s))
            ELSE <<Head(s)>> \o Squeezed(Tail(s))
        SameLetter(c, d) ==
            c = d \/ {c, d} \in {{"S", "s"}, {"M", "m"}, {"V", "v"}}
        Alike(x, y) ==
            /\ Len(Squeezed(x)) = Len(Squeezed(y))
            /\ \A i \in 1..Len(Squeezed(x)) :
                    SameLetter(Squeezed(x)[i], Squeezed(y)[i])
    IN textCall.pc = "keyed" =>
        /\ textCall.result.twice = textCall.result.once
        /\ (/\ Alike(textCall.arg[1].title, textCall.arg[2].title)
            /\ Alike(textCall.arg[1].artist, textCall.arg[2].artist))
                => textCall.result.keys[1] = textCall.result.keys[2]

\* the songs ("S ", "S") and ("s", "s ") got the same key, which holds
\* the title in lower case and without the space
C35_Witness ==
    /\ textCall.pc = "keyed"
    /\ textCall.arg = <<[title |-> <<"S", " ">>, artist |-> <<"S">>],
                        [title |-> <<"s">>, artist |-> <<"s", " ">>]>>
    /\ textCall.result.once = <<"s">>
    /\ textCall.result.keys[1] = textCall.result.keys[2]
    /\ textCall.result.keys[1] = <<"lyric_", "s", "_", "s">>

(***************************************************************************)
(* Lyrics Cache: a background refresh without usable lyrics.               *)
(***************************************************************************)
\* C36: a background refresh that ends without usable lyrics (its fetch
\* rejected, or resolved with the sentinel or with fewer than two lines)
\* leaves the cached entry as it was and queues no write: in the step that
\* ends it the entry is still stored, with the same lyrics, createdAt and
\* updatedAt, and no storage call is issued, so the next lookup is served
\* the stale entry.
C36_FailedRefreshLeavesEntry ==
    [][\A r \in Reqs :
        LET key == getCacheKey(reqs[r].query.title, reqs[r].query.artist)
            Unusable(l) == l.isNull \/ Len(l.lines) < 2
        IN (\/ RefreshFailed(r)
            \/ \E l \in FetchResults : Unusable(l) /\ RefreshFetched(r, l))
            => /\ key \in DOMAIN cache
               /\ key \in DOMAIN cache'
               /\ cache'[key].lyrics = cache[key].lyrics
               /\ cache'[key].createdAt = cache[key].createdAt
               /\ cache'[key].updatedAt = cache[key].updatedAt
               /\ localQ' = localQ
               /\ reqs'[r].refresh \in {"done", "failed"}
               /\ reqs'[r].writes = 0]_vars

\* the refresh of the first request resolved without usable lyrics, that of
\* the second was rejected, neither wrote, and the entry of day 0 is still
\* the one stored and the one the second request was answered with
C36_Witness ==
    /\ reqs[1].refresh = "done"
    /\ reqs[1].writes = 0
    /\ reqs[1].fetches = 1
    /\ reqs[2].pc = "done"
    /\ reqs[2].cached # << >>
    /\ reqs[2].refresh = "failed"
    /\ reqs[2].writes = 0
    /\ localQ = << >>
    /\ reqs[2].resp = <<Reply(List(ParsedLines(DocA)))>>
    /\ \E k \in DOMAIN cache :
            /\ cache[k].lyrics = List(ParsedLines(DocA))
            /\ cache[k].createdAt = 0
            /\ cache[k].updatedAt = 0

(***************************************************************************)
(* Popup: the player list and the index of the player shown.               *)
(***************************************************************************)
\* the status of a player
Statuses == {"playing", "paused"}

\* the stores the background sends: any set of tabs, each with an entry of
\* either status written at any instant of the clock
PopupStores ==
    UNION { [ts -> Statuses \X (0..MaxNow)] : ts \in SUBSET Tabs }

\* the store of that shape, with the entries updatePlayerState writes
StoreOf(shape) ==
    [t \in DOMAIN shape |->
        MakeEntry([title |-> "s1", status |-> shape[t][1], artwork |-> "null"],
                  t, shape[t][2])]

\* the popup page is opened: popup.js runs and init sends getStoreSnapshot
PopupOpens ==
    /\ ~popup.open
    /\ popup' = LoadedPopup
    /\ UNCHANGED <<storeVars, now, lyricVars, page, match, gc, textCall>>

\* the callback of getStoreSnapshot runs with the store
SnapshotArrives(shape) ==
    /\ popup.open
    /\ popup.snapshot = "pending"
    /\ popup' = [updatePlayersList(popup, StoreOf(shape)) EXCEPT
                    !.isInitialized = TRUE, !.snapshot = "done"]
    /\ UNCHANGED <<storeVars, now, lyricVars, page, match, gc, textCall>>

\* the callback of getStoreSnapshot runs with undefined (the background did
\* not answer): `if (store)` skips the update
SnapshotFails ==
    /\ popup.open
    /\ popup.snapshot = "pending"
    /\ popup' = [popup EXCEPT !.snapshot = "done"]
    /\ UNCHANGED <<storeVars, now, lyricVars, page, match, gc, textCall>>

\* onMessage, action "storeUpdated": updatePlayersList(request.store)
StoreUpdated(shape) ==
    /\ popup.open
    /\ popup' = updatePlayersList(popup, StoreOf(shape))
    /\ UNCHANGED <<storeVars, now, lyricVars, page, match, gc, textCall>>

\* click on prevBtn
PrevClick ==
    /\ popup.open
    /\ popup' = IF Len(popup.players) <= 1 THEN popup
                ELSE [popup EXCEPT !.currentIndex =
                        (popup.currentIndex - 1 + Len(popup.players))
                            % Len(popup.players)]
    /\ UNCHANGED <<storeVars, now, lyricVars, page, match, gc, textCall>>

\* click on nextBtn
NextClick ==
    /\ popup.open
    /\ popup' = IF Len(popup.players) <= 1 THEN popup
                ELSE [popup EXCEPT !.currentIndex =
                        (popup.currentIndex + 1) % Len(popup.players)]
    /\ UNCHANGED <<storeVars, now, lyricVars, page, match, gc, textCall>>

InitPopup ==
    /\ popup = NoPopup
    /\ textCall = NoTextCall
    /\ match = IdleMatch
    /\ gc = IdleGc
    /\ page = IdlePage
    /\ orch = IdleOrch
    /\ cache = EmptyCache
    /\ localQ = << >>
    /\ reqs = [r \in Reqs |-> IdleReq]
    /\ session = EmptyStore
    /\ sessQ = << >>
    /\ procs = [p \in Procs |-> IdleProc]
    /\ tabUrl = [t \in Tabs |-> "ytm"]
    /\ now = 0

NextPopup ==
    \/ PopupOpens
    \/ \E shape \in PopupStores : SnapshotArrives(shape)
    \/ SnapshotFails
    \/ \E shape \in PopupStores : StoreUpdated(shape)
    \/ PrevClick
    \/ NextClick
    \/ PopupCloses

SpecPopup == InitPopup /\ [][NextPopup]_vars

\* C37: the popup's current index is always valid: it is 0 when the player
\* list is empty and otherwise at least 0 and less than the number of
\* players.
C37_CurrentIndexValid ==
    /\ popup.currentIndex \in Nat
    /\ Len(popup.players) = 0 => popup.currentIndex = 0
    /\ Len(popup.players) > 0 => popup.currentIndex < Len(popup.players)

\* after the snapshot a storeUpdated has replaced the list (a paused player
\* comes before a playing one, which the sort of the first load excludes)
\* and the index, moved by a click or kept by the update, is that of the
\* last of several players
C37_Witness ==
    /\ popup.open
    /\ popup.isInitialized
    /\ Len(popup.players) > 1
    /\ popup.currentIndex = Len(popup.players) - 1
    /\ popup.players[1].status = "paused"
    /\ popup.players[Len(popup.players)].status = "playing"

====
